---- MODULE Spec2Model ----
(***************************************************************************)
(* Verification model of the DevToolkit python tools: the escape codec     *)
(* (plugins/escape_tool.py) and the color converter                        *)
(* (plugins/color_tool.py).                                                *)
(*                                                                         *)
(* Text is a sequence of Unicode code points (naturals), exactly what a    *)
(* Python str is.  Library calls made by the tools (str.replace, re.sub,   *)
(* html.escape, json.dumps, int(..., 16), float arithmetic, ...) are       *)
(* modelled by what they compute.                                          *)
(***************************************************************************)
EXTENDS Integers, Sequences, FiniteSets, TLC

(***************************************************************************)
(* Characters                                                              *)
(***************************************************************************)
\* code points of the characters the tools name literally
CH == [ tab |-> 9, lf |-> 10, vt |-> 11, ff |-> 12, cr |-> 13, bs |-> 8,
        bel |-> 7, space |-> 32, bang |-> 33, dquote |-> 34, hash |-> 35,
        percent |-> 37, amp |-> 38, squote |-> 39, lparen |-> 40,
        rparen |-> 41, plus |-> 43, comma |-> 44, minus |-> 45,
        slash |-> 47, zero |-> 48, nine |-> 57, semi |-> 59, lt |-> 60,
        gt |-> 62, A |-> 65, F |-> 70, N |-> 78, U |-> 85, X |-> 88,
        backslash |-> 92, underscore |-> 95, a |-> 97, b |-> 98, d |-> 100,
        f |-> 102, g |-> 103, h |-> 104, l |-> 108, m |-> 109, n |-> 110,
        o |-> 111, p |-> 112, q |-> 113, r |-> 114, s |-> 115, t |-> 116,
        u |-> 117, v |-> 118, x |-> 120, del |-> 127 ]

IsDigit(c) == c >= 48 /\ c <= 57
IsOctDigit(c) == c >= 48 /\ c <= 55
IsHexDigit(c) == IsDigit(c) \/ (c >= 97 /\ c <= 102) \/ (c >= 65 /\ c <= 70)
\* the lower-case hex digit of a value 0..15, as '%x' prints it
HexChar(v) == IF v < 10 THEN 48 + v ELSE 87 + v
\* ASCII lower-casing, as re.IGNORECASE compares letters
Lower(c) == IF c >= 65 /\ c <= 90 THEN c + 32 ELSE c

AllHex(s) == \A i \in 1..Len(s) : IsHexDigit(s[i])

RECURSIVE HexToInt(_)
HexToInt(s) == IF s = <<>> THEN 0
               ELSE 16 * HexToInt(SubSeq(s, 1, Len(s) - 1))
                    + (IF IsDigit(s[Len(s)]) THEN s[Len(s)] - 48
                       ELSE IF s[Len(s)] >= 97 THEN s[Len(s)] - 87
                       ELSE s[Len(s)] - 55)

RECURSIVE HexDigits(_)
\* the hex digits of a natural, most significant first, no padding
HexDigits(n) == IF n < 16 THEN <<HexChar(n)>>
                ELSE Append(HexDigits(n \div 16), HexChar(n % 16))

RECURSIVE ZeroPad(_, _)
ZeroPad(s, width) == IF Len(s) >= width THEN s ELSE ZeroPad(<<48>> \o s, width)

\* '%04x' % n
Hex4(n) == ZeroPad(HexDigits(n), 4)

StartsWith(s, pre) == Len(s) >= Len(pre) /\ SubSeq(s, 1, Len(pre)) = pre
Drop(s, k) == SubSeq(s, k + 1, Len(s))

RECURSIVE Replace(_, _, _)
\* str.replace(old, new): left to right, non-overlapping
Replace(s, old, new) ==
    IF Len(s) < Len(old) THEN s
    ELSE IF StartsWith(s, old) THEN new \o Replace(Drop(s, Len(old)), old, new)
    ELSE <<Head(s)>> \o Replace(Tail(s), old, new)

(***************************************************************************)
(* JavaScript escape / unescape                                            *)
(***************************************************************************)
\* the high surrogate with the shift off by one bit
HighSurrogate_shift9(o) == 55296 + ((o - 65536) \div 512)
\* high = 0xD800 + (cp >> 10)
HighSurrogate(o) == 55296 + ((o - 65536) \div 1024)
\* low = 0xDC00 + (cp & 0x3FF)
LowSurrogate(o) == 56320 + ((o - 65536) % 1024)

\* an iteration that writes a control character without padding zeros
js_escape_char_unpadded(o) ==
    IF o = CH.dquote THEN <<CH.backslash, CH.dquote>>
    ELSE IF o = CH.squote THEN <<CH.backslash, CH.squote>>
    ELSE IF o = CH.backslash THEN <<CH.backslash, CH.backslash>>
    ELSE IF o = CH.lf THEN <<CH.backslash, CH.n>>
    ELSE IF o = CH.cr THEN <<CH.backslash, CH.r>>
    ELSE IF o = CH.tab THEN <<CH.backslash, CH.t>>
    ELSE IF o = CH.bs THEN <<CH.backslash, CH.b>>
    ELSE IF o = CH.ff THEN <<CH.backslash, CH.f>>
    ELSE IF o < 32 THEN <<CH.backslash, CH.u>> \o HexDigits(o)
    ELSE IF o > 127 THEN
        IF o <= 65535 THEN <<CH.backslash, CH.u>> \o Hex4(o)
        ELSE <<CH.backslash, CH.u>> \o Hex4(HighSurrogate(o))
             \o <<CH.backslash, CH.u>> \o Hex4(LowSurrogate(o))
    ELSE <<o>>
\* one iteration of the loop of js_escape
js_escape_char(o) ==
    IF o = CH.dquote THEN <<CH.backslash, CH.dquote>>
    ELSE IF o = CH.squote THEN <<CH.backslash, CH.squote>>
    ELSE IF o = CH.backslash THEN <<CH.backslash, CH.backslash>>
    ELSE IF o = CH.lf THEN <<CH.backslash, CH.n>>
    ELSE IF o = CH.cr THEN <<CH.backslash, CH.r>>
    ELSE IF o = CH.tab THEN <<CH.backslash, CH.t>>
    ELSE IF o = CH.bs THEN <<CH.backslash, CH.b>>
    ELSE IF o = CH.ff THEN <<CH.backslash, CH.f>>
    ELSE IF o < 32 THEN <<CH.backslash, CH.u>> \o Hex4(o)
    ELSE IF o > 127 THEN
        IF o <= 65535 THEN <<CH.backslash, CH.u>> \o Hex4(o)
        ELSE <<CH.backslash, CH.u>> \o Hex4(HighSurrogate(o))
             \o <<CH.backslash, CH.u>> \o Hex4(LowSurrogate(o))
    ELSE <<o>>

RECURSIVE js_escape(_)
js_escape(s) == IF s = <<>> THEN <<>>
                ELSE js_escape_char(Head(s)) \o js_escape(Tail(s))

\* the three chained lines of str.replace at the top of js_unescape
js_replace_named(s) ==
    LET s1 == Replace(s, <<CH.backslash, CH.n>>, <<CH.lf>>)
        s2 == Replace(s1, <<CH.backslash, CH.r>>, <<CH.cr>>)
        s3 == Replace(s2, <<CH.backslash, CH.t>>, <<CH.tab>>)
        s4 == Replace(s3, <<CH.backslash, CH.b>>, <<CH.bs>>)
        s5 == Replace(s4, <<CH.backslash, CH.f>>, <<CH.ff>>)
        s6 == Replace(s5, <<CH.backslash, CH.dquote>>, <<CH.dquote>>)
        s7 == Replace(s6, <<CH.backslash, CH.squote>>, <<CH.squote>>)
    IN  Replace(s7, <<CH.backslash, CH.backslash>>, <<CH.backslash>>)

RECURSIVE repl_x(_)
\* re.sub(r"\\x([0-9a-fA-F]{2})", repl_x, s)
repl_x(s) ==
    IF s = <<>> THEN <<>>
    ELSE IF Len(s) >= 4 /\ s[1] = CH.backslash /\ s[2] = CH.x
            /\ AllHex(SubSeq(s, 3, 4))
         THEN <<HexToInt(SubSeq(s, 3, 4))>> \o repl_x(Drop(s, 4))
    ELSE <<Head(s)>> \o repl_x(Tail(s))

\* \\u([dD][89abAB][0-9a-fA-F]{2}) at the head of s
IsHighEscape(s) ==
    /\ Len(s) >= 6 /\ s[1] = CH.backslash /\ s[2] = CH.u
    /\ Lower(s[3]) = CH.d
    /\ Lower(s[4]) \in {56, 57, CH.a, CH.b}
    /\ IsHexDigit(s[5]) /\ IsHexDigit(s[6])
\* \\u([dD][cdefCDEF][0-9a-fA-F]{2}) at the head of s
IsLowEscape(s) ==
    /\ Len(s) >= 6 /\ s[1] = CH.backslash /\ s[2] = CH.u
    /\ Lower(s[3]) = CH.d
    /\ Lower(s[4]) \in {99, CH.d, 101, CH.f}
    /\ IsHexDigit(s[5]) /\ IsHexDigit(s[6])

\* cp = ((hi - 0xD800) << 10) + (lo - 0xDC00) + 0x10000
CombineSurrogates(hi, lo) == ((hi - 55296) * 1024) + (lo - 56320) + 65536

RECURSIVE repl_surrogate(_)
repl_surrogate(s) ==
    IF s = <<>> THEN <<>>
    ELSE IF IsHighEscape(s) /\ IsLowEscape(Drop(s, 6))
         THEN <<CombineSurrogates(HexToInt(SubSeq(s, 3, 6)),
                                  HexToInt(SubSeq(s, 9, 12)))>>
              \o repl_surrogate(Drop(s, 12))
    ELSE <<Head(s)>> \o repl_surrogate(Tail(s))

RECURSIVE repl_u(_)
\* re.sub(r"\\u([0-9a-fA-F]{4})", repl_u, s)
repl_u(s) ==
    IF s = <<>> THEN <<>>
    ELSE IF Len(s) >= 6 /\ s[1] = CH.backslash /\ s[2] = CH.u
            /\ AllHex(SubSeq(s, 3, 6))
         THEN <<HexToInt(SubSeq(s, 3, 6))>> \o repl_u(Drop(s, 6))
    ELSE <<Head(s)>> \o repl_u(Tail(s))

js_unescape(s) == repl_u(repl_surrogate(repl_x(js_replace_named(s))))

(***************************************************************************)
(* JSON escape / unescape                                                  *)
(***************************************************************************)
\* json.dumps(text, ensure_ascii=False): the replacement of one character
json_dumps_char(o) ==
    IF o = CH.dquote THEN <<CH.backslash, CH.dquote>>
    ELSE IF o = CH.backslash THEN <<CH.backslash, CH.backslash>>
    ELSE IF o = CH.lf THEN <<CH.backslash, CH.n>>
    ELSE IF o = CH.cr THEN <<CH.backslash, CH.r>>
    ELSE IF o = CH.tab THEN <<CH.backslash, CH.t>>
    ELSE IF o = CH.bs THEN <<CH.backslash, CH.b>>
    ELSE IF o = CH.ff THEN <<CH.backslash, CH.f>>
    ELSE IF o < 32 THEN <<CH.backslash, CH.u>> \o Hex4(o)
    ELSE <<o>>

RECURSIVE json_dumps_body(_)
json_dumps_body(s) == IF s = <<>> THEN <<>>
                      ELSE json_dumps_char(Head(s)) \o json_dumps_body(Tail(s))

\* _json.dumps(text, ensure_ascii=False): a quoted JSON string literal
\* out = _json.dumps(text, ensure_ascii=False)[1:-1]
json_escape(s) ==
    SubSeq(<<CH.dquote>> \o json_dumps_body(s) \o <<CH.dquote>>, 2,
           Len(json_dumps_body(s)) + 1)

Fail == [ok |-> FALSE, value |-> <<>>]
Ok(v) == [ok |-> TRUE, value |-> v]

IsJsonSimpleEscape(c) ==
    c \in {CH.dquote, CH.backslash, CH.slash, CH.b, CH.f, CH.n, CH.r, CH.t}
JsonSimpleEscape(c) ==
    CASE c = CH.b -> CH.bs
      [] c = CH.f -> CH.ff
      [] c = CH.n -> CH.lf
      [] c = CH.r -> CH.cr
      [] c = CH.t -> CH.tab
      [] OTHER -> c


RECURSIVE scanstring(_, _)
\* json.decoder scanstring (strict): s is the text after the opening quote;
\* the result is the decoded string and the text after the closing quote
scanstring(s, acc) ==
    IF s = <<>> THEN [ok |-> FALSE, value |-> <<>>, rest |-> <<>>]
    ELSE IF Head(s) = CH.dquote THEN [ok |-> TRUE, value |-> acc, rest |-> Tail(s)]
    ELSE IF Head(s) < 32 THEN [ok |-> FALSE, value |-> <<>>, rest |-> <<>>]
    ELSE IF Head(s) # CH.backslash THEN scanstring(Tail(s), Append(acc, Head(s)))
    ELSE IF Len(s) < 2 THEN [ok |-> FALSE, value |-> <<>>, rest |-> <<>>]
    ELSE IF s[2] # CH.u THEN
        IF IsJsonSimpleEscape(s[2])
        THEN scanstring(Drop(s, 2), Append(acc, JsonSimpleEscape(s[2])))
        ELSE [ok |-> FALSE, value |-> <<>>, rest |-> <<>>]
    ELSE IF ~(Len(s) >= 6 /\ AllHex(SubSeq(s, 3, 6)))
        THEN [ok |-> FALSE, value |-> <<>>, rest |-> <<>>]
    ELSE LET c == HexToInt(SubSeq(s, 3, 6))
             after == Drop(s, 6)
         IN  IF c >= 55296 /\ c <= 56319 /\ Len(after) > 6
                /\ after[1] = CH.backslash /\ after[2] = CH.u
             THEN IF ~AllHex(SubSeq(after, 3, 6))
                  THEN [ok |-> FALSE, value |-> <<>>, rest |-> <<>>]
                  ELSE LET c2 == HexToInt(SubSeq(after, 3, 6))
                       IN  IF c2 >= 56320 /\ c2 <= 57343
                           THEN scanstring(Drop(after, 6),
                                           Append(acc, CombineSurrogates(c, c2)))
                           ELSE scanstring(after, Append(acc, c))
             ELSE scanstring(after, Append(acc, c))


\* _json.loads(doc) of a document that starts with a double quote: the
\* string literal, then nothing but whitespace ("Extra data" otherwise)
json_loads(doc) ==
    IF doc = <<>> \/ Head(doc) # CH.dquote THEN Fail
    ELSE LET r == scanstring(Tail(doc), <<>>)
         IN  IF r.ok /\ \A i \in 1..Len(r.rest) : r.rest[i] \in {CH.space, CH.tab, CH.lf, CH.cr}
             THEN Ok(r.value)
             ELSE Fail

\* str.encode('utf-8') of one code point; surrogates cannot be encoded
utf8_char(c) ==
    IF c < 128 THEN <<c>>
    ELSE IF c < 2048 THEN <<192 + (c \div 64), 128 + (c % 64)>>
    ELSE IF c < 65536 THEN
        <<224 + (c \div 4096), 128 + ((c \div 64) % 64), 128 + (c % 64)>>
    ELSE <<240 + (c \div 262144), 128 + ((c \div 4096) % 64),
           128 + ((c \div 64) % 64), 128 + (c % 64)>>

RECURSIVE utf8_body(_)
utf8_body(s) == IF s = <<>> THEN <<>> ELSE utf8_char(Head(s)) \o utf8_body(Tail(s))

IsPySimpleEscape(c) ==
    c \in {CH.backslash, CH.squote, CH.dquote, CH.a, CH.b, CH.f, CH.n, CH.r,
           CH.t, CH.v}
PySimpleEscape(c) ==
    CASE c = CH.a -> CH.bel
      [] c = CH.b -> CH.bs
      [] c = CH.f -> CH.ff
      [] c = CH.n -> CH.lf
      [] c = CH.r -> CH.cr
      [] c = CH.t -> CH.tab
      [] c = CH.v -> CH.vt
      [] OTHER -> c

\* the number of octal digits (at most 3) at the head of s
OctRun(s) == IF Len(s) >= 3 /\ IsOctDigit(s[1]) /\ IsOctDigit(s[2]) /\ IsOctDigit(s[3]) THEN 3
             ELSE IF Len(s) >= 2 /\ IsOctDigit(s[1]) /\ IsOctDigit(s[2]) THEN 2
             ELSE 1
RECURSIVE OctToInt(_)
OctToInt(s) == IF s = <<>> THEN 0
               ELSE 8 * OctToInt(SubSeq(s, 1, Len(s) - 1)) + (s[Len(s)] - 48)

RECURSIVE unicode_escape_body(_, _)
\* bytes.decode('unicode_escape'): bytes outside escapes are Latin-1.
\* \N{name} needs the Unicode name table: no name is spellable in the
\* modelled texts, so \N is the malformed / unknown-name error.
unicode_escape_body(b, acc) ==
    IF b = <<>> THEN Ok(acc)
    ELSE IF Head(b) # CH.backslash THEN unicode_escape_body(Tail(b), Append(acc, Head(b)))
    ELSE IF Len(b) < 2 THEN Fail
    ELSE LET c == b[2]
             r == Drop(b, 2)
         IN  IF c = CH.lf THEN unicode_escape_body(r, acc)
             ELSE IF IsPySimpleEscape(c)
                  THEN unicode_escape_body(r, Append(acc, PySimpleEscape(c)))
             ELSE IF IsOctDigit(c)
                  THEN LET k == OctRun(Tail(b))
                       IN  unicode_escape_body(Drop(b, 1 + k),
                               Append(acc, OctToInt(SubSeq(b, 2, 1 + k))))
             ELSE IF c = CH.x
                  THEN IF Len(r) >= 2 /\ AllHex(SubSeq(r, 1, 2))
                       THEN unicode_escape_body(Drop(r, 2),
                               Append(acc, HexToInt(SubSeq(r, 1, 2))))
                       ELSE Fail
             ELSE IF c = CH.u
                  THEN IF Len(r) >= 4 /\ AllHex(SubSeq(r, 1, 4))
                       THEN unicode_escape_body(Drop(r, 4),
                               Append(acc, HexToInt(SubSeq(r, 1, 4))))
                       ELSE Fail
             ELSE IF c = CH.U
                  THEN IF Len(r) >= 8 /\ AllHex(SubSeq(r, 1, 8))
                          /\ HexToInt(SubSeq(r, 1, 2)) = 0
                          /\ HexToInt(SubSeq(r, 3, 8)) <= 1114111
                       THEN unicode_escape_body(Drop(r, 8),
                               Append(acc, HexToInt(SubSeq(r, 3, 8))))
                       ELSE Fail
             ELSE IF c = CH.N THEN Fail
             ELSE unicode_escape_body(r, Append(Append(acc, CH.backslash), c))

\* text.encode('utf-8').decode('unicode_escape')
\* (a lone surrogate cannot be encoded)
unicode_escape_fallback(s) ==
    IF \E i \in 1..Len(s) : s[i] >= 55296 /\ s[i] <= 57343 THEN Fail
    ELSE unicode_escape_body(utf8_body(s), <<>>)

\* the json branch of unescape: strict parse, then the fallback
json_unescape(s) ==
    LET doc == <<CH.dquote>>
               \o Replace(s, <<CH.dquote>>, <<CH.backslash, CH.dquote>>)
               \o <<CH.dquote>>
        r == json_loads(doc)
    IN  IF r.ok THEN r ELSE unicode_escape_fallback(s)

(***************************************************************************)
(* XML escape / unescape (xml.sax.saxutils, no extra entities)             *)
(***************************************************************************)
ENT == [ amp  |-> <<38, 97, 109, 112, 59>>,
         lt   |-> <<38, 108, 116, 59>>,
         gt   |-> <<38, 103, 116, 59>>,
         quot |-> <<38, 113, 117, 111, 116, 59>>,
         x27  |-> <<38, 35, 120, 50, 55, 59>> ]

\* saxutils.escape(data): & first, then > and <
xml_escape(s) ==
    Replace(Replace(Replace(s, <<CH.amp>>, ENT.amp), <<CH.gt>>, ENT.gt),
            <<CH.lt>>, ENT.lt)

\* unescape that decodes &amp; before the other entities
xml_unescape_amp_first(s) ==
    Replace(Replace(Replace(s, ENT.amp, <<CH.amp>>), ENT.lt, <<CH.lt>>),
            ENT.gt, <<CH.gt>>)
\* saxutils.unescape(data): &lt; and &gt;, and &amp; last
xml_unescape(s) ==
    Replace(Replace(Replace(s, ENT.lt, <<CH.lt>>), ENT.gt, <<CH.gt>>),
            ENT.amp, <<CH.amp>>)

(***************************************************************************)
(* HTML escape / unescape (html.escape, html.unescape)                     *)
(***************************************************************************)
\* an escape that replaces & after the other four characters
html_escape_amp_last(s) ==
    LET s1 == Replace(s, <<CH.lt>>, ENT.lt)
        s2 == Replace(s1, <<CH.gt>>, ENT.gt)
        s3 == Replace(s2, <<CH.dquote>>, ENT.quot)
        s4 == Replace(s3, <<CH.squote>>, ENT.x27)
    IN  Replace(s4, <<CH.amp>>, ENT.amp)
\* html.escape(s, quote=True): & first, then < > " '
html_escape(s) ==
    LET s1 == Replace(s, <<CH.amp>>, ENT.amp)
        s2 == Replace(s1, <<CH.lt>>, ENT.lt)
        s3 == Replace(s2, <<CH.gt>>, ENT.gt)
        s4 == Replace(s3, <<CH.dquote>>, ENT.quot)
    IN  Replace(s4, <<CH.squote>>, ENT.x27)

\* html.entities.html5, restricted to the names the modelled texts can spell
Html5Names ==
    { <<97, 109, 112, 59>>, <<97, 109, 112>>, <<108, 116, 59>>, <<108, 116>>,
      <<103, 116, 59>>, <<103, 116>>, <<113, 117, 111, 116, 59>>,
      <<113, 117, 111, 116>>, <<97, 112, 111, 115, 59>>,
      <<110, 98, 115, 112, 59>>, <<110, 98, 115, 112>>,
      <<110, 108, 116, 59>>, <<110, 103, 116, 59>> }
Html5(name) ==
    CASE name \in {<<97, 109, 112, 59>>, <<97, 109, 112>>} -> <<38>>
      [] name \in {<<108, 116, 59>>, <<108, 116>>} -> <<60>>
      [] name \in {<<103, 116, 59>>, <<103, 116>>} -> <<62>>
      [] name \in {<<113, 117, 111, 116, 59>>, <<113, 117, 111, 116>>} -> <<34>>
      [] name = <<97, 112, 111, 115, 59>> -> <<39>>
      [] name \in {<<110, 98, 115, 112, 59>>, <<110, 98, 115, 112>>} -> <<160>>
      [] name = <<110, 108, 116, 59>> -> <<8814>>
      [] name = <<110, 103, 116, 59>> -> <<8815>>

\* html._invalid_charrefs: the Windows-1252 repairs of numeric references
InvalidCharrefs ==
    [ n \in ({0, 13} \cup (128..159)) |->
        CASE n = 0 -> 65533
          [] n = 13 -> 13
          [] n = 128 -> 8364 [] n = 130 -> 8218 [] n = 131 -> 402
          [] n = 132 -> 8222 [] n = 133 -> 8230 [] n = 134 -> 8224
          [] n = 135 -> 8225 [] n = 136 -> 710  [] n = 137 -> 8240
          [] n = 138 -> 352  [] n = 139 -> 8249 [] n = 140 -> 338
          [] n = 142 -> 381  [] n = 145 -> 8216 [] n = 146 -> 8217
          [] n = 147 -> 8220 [] n = 148 -> 8221 [] n = 149 -> 8226
          [] n = 150 -> 8211 [] n = 151 -> 8212 [] n = 152 -> 732
          [] n = 153 -> 8482 [] n = 154 -> 353  [] n = 155 -> 8250
          [] n = 156 -> 339  [] n = 158 -> 382  [] n = 159 -> 376
          [] OTHER -> n ]

RECURSIVE StripZeros(_)
StripZeros(s) == IF s # <<>> /\ Head(s) = 48 THEN StripZeros(Tail(s)) ELSE s

RECURSIVE DecToInt(_)
DecToInt(s) == IF s = <<>> THEN 0
               ELSE 10 * DecToInt(SubSeq(s, 1, Len(s) - 1)) + (s[Len(s)] - 48)

\* the replacement of a numeric reference whose number is num
NumericCharref(num) ==
    IF num \in DOMAIN InvalidCharrefs THEN <<InvalidCharrefs[num]>>
    ELSE IF (num >= 55296 /\ num <= 57343) \/ num > 1114111 THEN <<65533>>
    \* html._invalid_codepoints
    ELSE IF \/ num \in 1..8 \/ num = 11 \/ num \in 14..31 \/ num \in 127..159
            \/ num \in 64976..65007
            \/ (num % 65536) \in {65534, 65535}
         THEN <<>>
    ELSE <<num>>

RTrimSemi(s) == IF s # <<>> /\ s[Len(s)] = CH.semi THEN SubSeq(s, 1, Len(s) - 1) ELSE s

RECURSIVE LongestEntityPrefix(_, _)
\* for x in range(len(s)-1, 1, -1): if s[:x] in html5
LongestEntityPrefix(s, x) ==
    IF x <= 1 THEN 0
    ELSE IF SubSeq(s, 1, x) \in Html5Names THEN x
    ELSE LongestEntityPrefix(s, x - 1)

\* html._replace_charref on the text matched after the ampersand.  A number
\* of more than 7 significant digits is above 0x10FFFF whatever its value.
replace_charref(s) ==
    IF Head(s) = CH.hash THEN
        IF s[2] \in {CH.x, CH.X}
        THEN LET ds == StripZeros(RTrimSemi(Drop(s, 2)))
             IN  IF Len(ds) > 6 THEN <<65533>> ELSE NumericCharref(HexToInt(ds))
        ELSE LET ds == StripZeros(RTrimSemi(Drop(s, 1)))
             IN  IF Len(ds) > 7 THEN <<65533>> ELSE NumericCharref(DecToInt(ds))
    ELSE IF s \in Html5Names THEN Html5(s)
    ELSE LET x == LongestEntityPrefix(s, Len(s) - 1)
         IN  IF x > 0 THEN Html5(SubSeq(s, 1, x)) \o Drop(s, x)
             ELSE <<CH.amp>> \o s

RECURSIVE RunLen(_, _, _)
\* how many leading characters of s (at most max) satisfy Cls
RunLen(s, Cls(_), max) ==
    IF s = <<>> \/ max = 0 \/ ~Cls(Head(s)) THEN 0
    ELSE 1 + RunLen(Tail(s), Cls, max - 1)

\* the length of the text the group of
\* &(#[0-9]+;?|#[xX][0-9a-fA-F]+;?|[^\t\n\f <&#;]{1,32};?) matches at the
\* head of t (the text after an ampersand), 0 when there is no match
CharrefLen(t) ==
    LET semi(k) == IF Len(t) > k /\ t[k + 1] = CH.semi THEN k + 1 ELSE k
        dec == IF t # <<>> /\ Head(t) = CH.hash
               THEN RunLen(Tail(t), IsDigit, Len(t)) ELSE 0
        hex == IF Len(t) >= 2 /\ t[1] = CH.hash /\ t[2] \in {CH.x, CH.X}
               THEN RunLen(Drop(t, 2), IsHexDigit, Len(t)) ELSE 0
        name == RunLen(t, LAMBDA c : c \notin {CH.tab, CH.lf, CH.ff, CH.space, CH.lt,
                                              CH.amp, CH.hash, CH.semi}, 32)
    IN  IF dec > 0 THEN semi(1 + dec)
        ELSE IF hex > 0 THEN semi(2 + hex)
        ELSE IF name > 0 THEN semi(name)
        ELSE 0

RECURSIVE html_unescape(_)
\* html.unescape(s): _charref.sub(_replace_charref, s)
html_unescape(s) ==
    IF s = <<>> THEN <<>>
    ELSE IF Head(s) # CH.amp THEN <<Head(s)>> \o html_unescape(Tail(s))
    ELSE LET k == CharrefLen(Tail(s))
         IN  IF k = 0 THEN <<CH.amp>> \o html_unescape(Tail(s))
             ELSE replace_charref(SubSeq(s, 2, 1 + k)) \o html_unescape(Drop(s, 1 + k))

(***************************************************************************)
(* Python float: IEEE-754 binary64, round to nearest, ties to even.        *)
(* A float is sgn * man * 2^exp with man a natural of at most 53           *)
(* significant bits, held as a little-endian sequence of 15-bit limbs      *)
(* (<<>> is zero).  The colours' values stay far from the subnormal and    *)
(* overflow ranges, which are not modelled.                                *)
(***************************************************************************)
FP == [base |-> 32768, limb |-> 15, prec |-> 53]

RECURSIVE BNorm(_)
BNorm(a) == IF a # <<>> /\ a[Len(a)] = 0 THEN BNorm(SubSeq(a, 1, Len(a) - 1)) ELSE a

RECURSIVE BFromInt(_)
BFromInt(n) == IF n = 0 THEN <<>> ELSE <<n % FP.base>> \o BFromInt(n \div FP.base)

RECURSIVE BToInt(_)
BToInt(a) == IF a = <<>> THEN 0 ELSE Head(a) + FP.base * BToInt(Tail(a))

Limb0(a) == IF a = <<>> THEN 0 ELSE Head(a)
Rest(a) == IF a = <<>> THEN <<>> ELSE Tail(a)

RECURSIVE BAddC(_, _, _)
BAddC(a, b, c) ==
    IF a = <<>> /\ b = <<>> THEN (IF c = 0 THEN <<>> ELSE <<c>>)
    ELSE LET x == Limb0(a) + Limb0(b) + c
         IN  <<x % FP.base>> \o BAddC(Rest(a), Rest(b), x \div FP.base)
BAdd(a, b) == BAddC(a, b, 0)

RECURSIVE BSubB(_, _, _)
BSubB(a, b, borrow) ==
    IF a = <<>> THEN <<>>
    ELSE LET x == Head(a) - Limb0(b) - borrow
         IN  IF x < 0 THEN <<x + FP.base>> \o BSubB(Tail(a), Rest(b), 1)
             ELSE <<x>> \o BSubB(Tail(a), Rest(b), 0)
\* a - b for a >= b
BSub(a, b) == BNorm(BSubB(a, b, 0))

RECURSIVE BCmpTop(_, _)
BCmpTop(a, b) ==
    IF a = <<>> THEN 0
    ELSE IF a[Len(a)] < b[Len(b)] THEN -1
    ELSE IF a[Len(a)] > b[Len(b)] THEN 1
    ELSE BCmpTop(SubSeq(a, 1, Len(a) - 1), SubSeq(b, 1, Len(b) - 1))
\* -1, 0 or 1 as a <, =, > b
BCmp(a, b) == IF Len(a) < Len(b) THEN -1
              ELSE IF Len(a) > Len(b) THEN 1
              ELSE BCmpTop(a, b)

RECURSIVE BMulSmallC(_, _, _)
BMulSmallC(a, k, c) ==
    IF a = <<>> THEN (IF c = 0 THEN <<>> ELSE <<c>>)
    ELSE LET x == Head(a) * k + c
         IN  <<x % FP.base>> \o BMulSmallC(Tail(a), k, x \div FP.base)
BMulSmall(a, k) == BNorm(BMulSmallC(a, k, 0))

RECURSIVE BMul(_, _)
BMul(a, b) ==
    IF a = <<>> \/ b = <<>> THEN <<>>
    ELSE LET Up(hi) == IF hi = <<>> THEN <<>> ELSE <<0>> \o hi
         IN  BAdd(BMulSmall(a, Head(b)), Up(BMul(a, Tail(b))))

RECURSIVE BDivSmallR(_, _, _, _)
\* short division, most significant limb of a first; quot collects the digits
BDivSmallR(a, k, rem, quot) ==
    IF a = <<>> THEN [q |-> BNorm(quot), r |-> rem]
    ELSE BDivSmallR(SubSeq(a, 1, Len(a) - 1), k,
                    (rem * FP.base + a[Len(a)]) % k,
                    <<(rem * FP.base + a[Len(a)]) \div k>> \o quot)
\* quotient and remainder of a by a one-limb k
BDivSmall(a, k) == BDivSmallR(a, k, 0, <<>>)

\* a * 2^n
BShl(a, n) ==
    BNorm([i \in 1..(Len(a) + (n \div FP.limb) + 1) |->
              (IF i > n \div FP.limb /\ i - (n \div FP.limb) <= Len(a)
               THEN (a[i - (n \div FP.limb)] % 2^(FP.limb - (n % FP.limb)))
                    * 2^(n % FP.limb)
               ELSE 0)
              + (IF i - (n \div FP.limb) >= 2
                 THEN a[i - (n \div FP.limb) - 1] \div 2^(FP.limb - (n % FP.limb))
                 ELSE 0)])
\* a \div 2^n
BShr(a, n) ==
    IF n \div FP.limb >= Len(a) THEN <<>>
    ELSE BNorm([i \in 1..(Len(a) - (n \div FP.limb)) |->
                   (a[i + (n \div FP.limb)] \div 2^(n % FP.limb))
                   + (IF i + (n \div FP.limb) < Len(a)
                      THEN (a[i + (n \div FP.limb) + 1] % 2^(n % FP.limb))
                           * 2^(FP.limb - (n % FP.limb))
                      ELSE 0)])

RECURSIVE BitLenSmall(_)
BitLenSmall(x) == IF x = 0 THEN 0 ELSE 1 + BitLenSmall(x \div 2)
BBitLen(a) == IF a = <<>> THEN 0
              ELSE FP.limb * (Len(a) - 1) + BitLenSmall(a[Len(a)])
BBit(a, i) == (a[(i \div FP.limb) + 1] \div 2^(i % FP.limb)) % 2

\* a first guess of the next quotient digit, from the leading limbs of cur
\* and d: never too small, and at most two too large when the leading limb
\* of d has its top bit set
BEstimate(cur, d) ==
    IF Len(cur) < Len(d) THEN 0
    ELSE IF Len(cur) = Len(d) THEN cur[Len(cur)] \div d[Len(d)]
    ELSE IF (cur[Len(cur)] * FP.base + cur[Len(cur) - 1]) \div d[Len(d)] >= FP.base
         THEN FP.base - 1
    ELSE (cur[Len(cur)] * FP.base + cur[Len(cur) - 1]) \div d[Len(d)]
\* the largest digit q with d * q <= cur
BDigit(cur, d, est) ==
    IF BCmp(BMulSmall(d, est), cur) <= 0 THEN est
    ELSE IF BCmp(BMulSmall(d, est - 1), cur) <= 0 THEN est - 1
    ELSE est - 2

RECURSIVE BDivLimbs(_, _, _, _)
RECURSIVE BDivStep(_, _, _, _)
BDivTake(a, d, cur, digit, quot) ==
    BDivLimbs(SubSeq(a, 1, Len(a) - 1), d, BSub(cur, BMulSmall(d, digit)),
              <<digit>> \o quot)
BDivStep(a, d, cur, quot) ==
    IF BCmp(cur, d) < 0
    THEN BDivLimbs(SubSeq(a, 1, Len(a) - 1), d, cur, <<0>> \o quot)
    ELSE BDivTake(a, d, cur, BDigit(cur, d, BEstimate(cur, d)), quot)
\* long division, most significant limb of a first; quot collects the digits
BDivLimbs(a, d, rem, quot) ==
    IF a = <<>> THEN [q |-> BNorm(quot), r |-> rem]
    ELSE BDivStep(a, d, BNorm(<<a[Len(a)]>> \o rem), quot)

\* the long division of n by d, both shifted left by s bits
BDivLong(n, d, s) ==
    [q |-> BDivLimbs(BShl(n, s), BShl(d, s), <<>>, <<>>).q,
     r |-> BShr(BDivLimbs(BShl(n, s), BShl(d, s), <<>>, <<>>).r, s)]
\* quotient and remainder of n by d # 0
BDivMod(n, d) ==
    IF Len(d) = 1
    THEN [q |-> BDivSmall(n, Head(d)).q, r |-> BFromInt(BDivSmall(n, Head(d)).r)]
    ELSE BDivLong(n, d, FP.limb - BitLenSmall(d[Len(d)]))

FZero == [sgn |-> 1, man |-> <<>>, exp |-> 0]
FromInt(n) == IF n = 0 THEN FZero
              ELSE [sgn |-> IF n < 0 THEN -1 ELSE 1,
                    man |-> BFromInt(IF n < 0 THEN -n ELSE n), exp |-> 0]

\* round away the last sh >= 1 bits of man: up when they are more than half
\* of the last place kept, or exactly half and something lies beyond them
\* or the last bit kept is 1
RoundBits(sgn, man, exp, sticky, sh) ==
    [sgn |-> sgn,
     man |-> IF BBit(man, sh - 1) = 1
                /\ (sticky \/ BBit(man, sh) = 1
                    \/ BShl(BShr(man, sh - 1), sh - 1) # man)
             THEN BAdd(BShr(man, sh), <<1>>) ELSE BShr(man, sh),
     exp |-> exp + sh]
\* round man * 2^exp (plus a fraction of its last bit when sticky) to 53 bits
Round53(sgn, man, exp, sticky) ==
    IF man = <<>> THEN FZero
    ELSE IF BBitLen(man) <= FP.prec THEN [sgn |-> sgn, man |-> man, exp |-> exp]
    ELSE RoundBits(sgn, man, exp, sticky, BBitLen(man) - FP.prec)

\* man of x scaled to the exponent e <= x.exp
ManAt(x, e) == BShl(x.man, x.exp - e)
MinExp(x, y) == IF x.man = <<>> THEN y.exp
                ELSE IF y.man = <<>> THEN x.exp
                ELSE IF x.exp < y.exp THEN x.exp ELSE y.exp

\* the sum of sx * a * 2^e and sy * b * 2^e
FAddAligned(sx, a, sy, b, e) ==
    Round53(IF sx = sy \/ BCmp(a, b) >= 0 THEN sx ELSE sy,
            IF sx = sy THEN BAdd(a, b)
            ELSE IF BCmp(a, b) >= 0 THEN BSub(a, b) ELSE BSub(b, a),
            e, FALSE)
FAdd(x, y) ==
    IF x.man = <<>> THEN y
    ELSE IF y.man = <<>> THEN x
    ELSE FAddAligned(x.sgn, ManAt(x, MinExp(x, y)), y.sgn, ManAt(y, MinExp(x, y)),
                     MinExp(x, y))
FSub(x, y) == FAdd(x, [y EXCEPT !.sgn = -y.sgn])
FMul(x, y) ==
    IF x.man = <<>> \/ y.man = <<>> THEN FZero
    ELSE Round53(x.sgn * y.sgn, BMul(x.man, y.man), x.exp + y.exp, FALSE)
\* x / y with x shifted left by k bits first; the remainder is the sticky bit
FDivShifted(x, y, k, d) ==
    Round53(x.sgn * y.sgn, d.q, x.exp - y.exp - k, d.r # <<>>)
\* the shift that leaves 55 or more quotient bits
FDivShift(x, y) ==
    IF 55 + BBitLen(y.man) - BBitLen(x.man) > 0
    THEN 55 + BBitLen(y.man) - BBitLen(x.man) ELSE 0
\* x / y for y # 0
FDiv(x, y) ==
    IF x.man = <<>> THEN FZero
    ELSE FDivShifted(x, y, FDivShift(x, y),
                     BDivMod(BShl(x.man, FDivShift(x, y)), y.man))

\* -1, 0 or 1 as x <, =, > y
FCmp(x, y) ==
    IF x.man = <<>> /\ y.man = <<>> THEN 0
    ELSE IF x.man = <<>> THEN -y.sgn
    ELSE IF y.man = <<>> THEN x.sgn
    ELSE IF x.sgn # y.sgn THEN x.sgn
    ELSE x.sgn * BCmp(ManAt(x, MinExp(x, y)), ManAt(y, MinExp(x, y)))
FLt(x, y) == FCmp(x, y) < 0
FGt(x, y) == FCmp(x, y) > 0
FEq(x, y) == FCmp(x, y) = 0
FMax(x, y) == IF FGt(y, x) THEN y ELSE x
FMin(x, y) == IF FLt(y, x) THEN y ELSE x

\* int(x): truncation toward zero
FTrunc(x) ==
    IF x.man = <<>> THEN 0
    ELSE IF x.exp >= 0 THEN x.sgn * BToInt(BShl(x.man, x.exp))
    ELSE x.sgn * BToInt(BShr(x.man, -x.exp))

(***************************************************************************)
(* ColorTool: parsing                                                      *)
(***************************************************************************)
\* the characters str.strip() and int() treat as white space
PyWhitespace == (9..13) \cup (28..32) \cup {133, 160}

RECURSIVE LStrip(_, _)
\* str.lstrip(chars)
LStrip(s, chars) == IF s # <<>> /\ Head(s) \in chars THEN LStrip(Tail(s), chars) ELSE s
RECURSIVE RStrip(_, _)
RStrip(s, chars) == IF s # <<>> /\ s[Len(s)] \in chars
                    THEN RStrip(SubSeq(s, 1, Len(s) - 1), chars) ELSE s
\* str.strip()
Strip(s) == RStrip(LStrip(s, PyWhitespace), PyWhitespace)

ColorFail(msg) == [ok |-> FALSE, error |-> msg, type |-> "ValueError"]
Rgb(r, g, b) == [ok |-> TRUE, r |-> r, g |-> g, b |-> b]

\* int(pair, 16) of a two-character slice: white space around the digits is
\* stripped and one sign is accepted; a slice this short has no room for a
\* 0x prefix or an underscore between digits
Int16(pair) ==
    LET Value(t, signed, digits) ==
            IF digits = <<>> \/ ~AllHex(digits) THEN [ok |-> FALSE, value |-> 0]
            ELSE [ok |-> TRUE,
                  value |-> IF signed /\ Head(t) = CH.minus THEN -HexToInt(digits)
                            ELSE HexToInt(digits)]
        Signed(t, signed) == Value(t, signed, IF signed THEN Tail(t) ELSE t)
        Stripped(t) == Signed(t, t # <<>> /\ Head(t) \in {CH.plus, CH.minus})
    IN  Stripped(Strip(pair))

\* a shorthand expanded by writing the three digits twice
DoubleEach_repeated(s) == s \o s
RECURSIVE DoubleEach(_)
\* ''.join([c*2 for c in color])
DoubleEach(s) == IF s = <<>> THEN <<>>
                 ELSE <<Head(s), Head(s)>> \o DoubleEach(Tail(s))

_parse_hex(color0) ==
    LET Channels(r, g, b) ==
            IF r.ok /\ g.ok /\ b.ok THEN Rgb(r.value, g.value, b.value)
            ELSE ColorFail("Invalid hex color values")
        Pairs(color) ==
            IF Len(color) # 6 THEN ColorFail("Invalid hex color format")
            ELSE Channels(Int16(SubSeq(color, 1, 2)), Int16(SubSeq(color, 3, 4)),
                          Int16(SubSeq(color, 5, 6)))
        Stripped(color) ==
            Pairs(IF Len(color) = 3 THEN DoubleEach(color) ELSE color)
    IN  Stripped(LStrip(color0, {CH.hash}))

\* regular-expression items: a word matched ignoring case, \s*, one literal
\* character, and a captured (\d+)
Word(w) == [k |-> "word", w |-> w]
Ws == [k |-> "ws"]
Lit(c) == [k |-> "lit", c |-> c]
Digits == [k |-> "int"]


RECURSIVE ReMatch(_, _, _)
\* re.match(pattern, s, re.IGNORECASE) for a pattern of the items above,
\* none of which can take a character the next one could: the greedy match
\* is the only one.  The result is the captured groups.
ReMatch(s, pat, groups) ==
    IF pat = <<>> THEN [ok |-> TRUE, groups |-> groups]
    ELSE LET it == Head(pat)
         IN  IF it.k = "word" THEN
                 IF Len(s) >= Len(it.w) /\ [i \in 1..Len(it.w) |-> Lower(s[i])] = it.w
                 THEN ReMatch(Drop(s, Len(it.w)), Tail(pat), groups)
                 ELSE [ok |-> FALSE, groups |-> <<>>]
             ELSE IF it.k = "ws" THEN
                 ReMatch(Drop(s, RunLen(s, LAMBDA c : c \in PyWhitespace, Len(s))), Tail(pat), groups)
             ELSE IF it.k = "lit" THEN
                 IF s # <<>> /\ Head(s) = it.c
                 THEN ReMatch(Tail(s), Tail(pat), groups)
                 ELSE [ok |-> FALSE, groups |-> <<>>]
             ELSE LET Group(n) ==
                          IF n = 0 THEN [ok |-> FALSE, groups |-> <<>>]
                          ELSE ReMatch(Drop(s, n), Tail(pat),
                                       Append(groups, SubSeq(s, 1, n)))
                  IN  Group(RunLen(s, IsDigit, Len(s)))

\* r'rgb\s*\(\s*(\d+)\s*,\s*(\d+)\s*,\s*(\d+)\s*\)'
RgbPattern ==
    << Word(<<114, 103, 98>>), Ws, Lit(CH.lparen), Ws, Digits, Ws, Lit(CH.comma),
       Ws, Digits, Ws, Lit(CH.comma), Ws, Digits, Ws, Lit(CH.rparen) >>
\* r'hsl\s*\(\s*(\d+)\s*,\s*(\d+)%\s*,\s*(\d+)%\s*\)'
HslPattern ==
    << Word(<<104, 115, 108>>), Ws, Lit(CH.lparen), Ws, Digits, Ws, Lit(CH.comma),
       Ws, Digits, Lit(CH.percent), Ws, Lit(CH.comma), Ws, Digits, Lit(CH.percent),
       Ws, Lit(CH.rparen) >>

\* a range check that lets 256 through
channels_in_range_upto256(r, g, b) == \A val \in {r, g, b} : 0 <= val /\ val <= 256
\* all(0 <= val <= 255 for val in [r, g, b])
channels_in_range(r, g, b) == \A val \in {r, g, b} : 0 <= val /\ val <= 255

_parse_rgb(color) ==
    LET Values(r, g, b) ==
            IF channels_in_range(r, g, b) THEN Rgb(r, g, b)
            ELSE ColorFail("RGB values must be between 0 and 255")
        Matched(match) ==
            IF ~match.ok THEN ColorFail("Invalid RGB format")
            ELSE Values(DecToInt(match.groups[1]), DecToInt(match.groups[2]),
                        DecToInt(match.groups[3]))
    IN  Matched(ReMatch(color, RgbPattern, <<>>))

(***************************************************************************)
(* ColorTool: RGB <-> HSL                                                  *)
(***************************************************************************)
Half == [sgn |-> 1, man |-> <<1>>, exp |-> -1]

\* h before the division by 6, for a color that is not gray
rgb_hue6(r, g, b, max_val, d) ==
    IF FEq(max_val, r)
    THEN FAdd(FDiv(FSub(g, b), d), IF FLt(g, b) THEN FromInt(6) ELSE FZero)
    ELSE IF FEq(max_val, g) THEN FAdd(FDiv(FSub(b, r), d), FromInt(2))
    ELSE FAdd(FDiv(FSub(r, g), d), FromInt(4))
\* the else branch: s = d / den raises ZeroDivisionError when den is zero
rgb_chromatic(r, g, b, max_val, l, d, den) ==
    IF den.man = <<>>
    THEN [ok |-> FALSE, error |-> "float division by zero",
          type |-> "ZeroDivisionError"]
    ELSE [ok |-> TRUE,
          h |-> FTrunc(FMul(FDiv(rgb_hue6(r, g, b, max_val, d), FromInt(6)), FromInt(360))),
          s |-> FTrunc(FMul(FDiv(d, den), FromInt(100))),
          l |-> FTrunc(FMul(l, FromInt(100)))]
rgb_lightness(r, g, b, max_val, min_val, l) ==
    IF FEq(max_val, min_val)
    THEN [ok |-> TRUE, h |-> 0, s |-> 0, l |-> FTrunc(FMul(l, FromInt(100)))]
    ELSE rgb_chromatic(r, g, b, max_val, l, FSub(max_val, min_val),
                       IF FGt(l, Half) THEN FSub(FSub(FromInt(2), max_val), min_val)
                       ELSE FAdd(max_val, min_val))
rgb_unit(r, g, b) ==
    rgb_lightness(r, g, b, FMax(FMax(r, g), b), FMin(FMin(r, g), b),
                  FDiv(FAdd(FMax(FMax(r, g), b), FMin(FMin(r, g), b)), FromInt(2)))
\* _rgb_to_hsl: (h, s, l) as integers, or the ZeroDivisionError of a
\* saturation whose denominator is zero
_rgb_to_hsl(r0, g0, b0) ==
    rgb_unit(FDiv(FromInt(r0), FromInt(255)), FDiv(FromInt(g0), FromInt(255)), FDiv(FromInt(b0), FromInt(255)))

\* if t < 0: t += 1
hue_below(t) == IF FLt(t, FZero) THEN FAdd(t, FromInt(1)) ELSE t
\* if t > 1: t -= 1
hue_above(t) == IF FGt(t, FromInt(1)) THEN FSub(t, FromInt(1)) ELSE t
\* the four returns of hue_to_rgb
hue_channel(p, q, t) ==
    IF FLt(t, FDiv(FromInt(1), FromInt(6))) THEN FAdd(p, FMul(FMul(FSub(q, p), FromInt(6)), t))
    ELSE IF FLt(t, FDiv(FromInt(1), FromInt(2))) THEN q
    ELSE IF FLt(t, FDiv(FromInt(2), FromInt(3)))
         THEN FAdd(p, FMul(FMul(FSub(q, p), FSub(FDiv(FromInt(2), FromInt(3)), t)), FromInt(6)))
    ELSE p
\* the nested helper hue_to_rgb(p, q, t)
hue_to_rgb(p, q, t0) == hue_channel(p, q, hue_above(hue_below(t0)))

\* q computed as for a dark color whatever the lightness
hsl_q_dark_only(s, l) == FMul(l, FAdd(FromInt(1), s))
\* q = l * (1 + s) if l < 0.5 else l + s - l * s
hsl_q(s, l) == IF FLt(l, Half) THEN FMul(l, FAdd(FromInt(1), s))
               ELSE FSub(FAdd(l, s), FMul(l, s))

\* int(r * 255), int(g * 255), int(b * 255)
hsl_scaled(r, g, b) ==
    Rgb(FTrunc(FMul(r, FromInt(255))), FTrunc(FMul(g, FromInt(255))), FTrunc(FMul(b, FromInt(255))))
\* the three channels of a color that is not gray, h already divided by 360
hsl_chromatic(p, q, h) ==
    hsl_scaled(hue_to_rgb(p, q, FAdd(h, FDiv(FromInt(1), FromInt(3)))),
               hue_to_rgb(p, q, h),
               hue_to_rgb(p, q, FSub(h, FDiv(FromInt(1), FromInt(3)))))
\* _hsl_to_rgb(h, s, l) with h an integer and s, l floats
_hsl_to_rgb(h0, s, l) ==
    IF s.man = <<>> THEN hsl_scaled(l, l, l)
    ELSE hsl_chromatic(FSub(FMul(FromInt(2), l), hsl_q(s, l)), hsl_q(s, l),
                       FDiv(FromInt(h0), FromInt(360)))

_parse_hsl(color) ==
    IF ~ReMatch(color, HslPattern, <<>>).ok THEN ColorFail("Invalid HSL format")
    ELSE _hsl_to_rgb(DecToInt(ReMatch(color, HslPattern, <<>>).groups[1]),
                     FDiv(FromInt(DecToInt(ReMatch(color, HslPattern, <<>>).groups[2])),
                          FromInt(100)),
                     FDiv(FromInt(DecToInt(ReMatch(color, HslPattern, <<>>).groups[3])),
                          FromInt(100)))

(***************************************************************************)
(* ColorTool.execute                                                       *)
(***************************************************************************)
RECURSIVE DecDigits(_)
DecDigits(n) == IF n < 10 THEN <<48 + n>>
                ELSE Append(DecDigits(n \div 10), 48 + (n % 10))
\* str(n) of an integer
DecStr(n) == IF n < 0 THEN <<CH.minus>> \o DecDigits(-n) ELSE DecDigits(n)
\* f"{n:02x}": the sign counts towards the width of two
Hex02(n) == IF n < 0 THEN <<CH.minus>> \o HexDigits(-n)
            ELSE ZeroPad(HexDigits(n), 2)

ColorError(color, type, msg) ==
    [status |-> "error", input_color |-> color, type |-> type, error |-> msg]

\* f"Invalid color format: {e}" for each message e the parsers raise
InvalidColorFormat(e) ==
    CASE e = "Invalid hex color format"
           -> "Invalid color format: Invalid hex color format"
      [] e = "Invalid hex color values"
           -> "Invalid color format: Invalid hex color values"
      [] e = "Invalid RGB format"
           -> "Invalid color format: Invalid RGB format"
      [] e = "RGB values must be between 0 and 255"
           -> "Invalid color format: RGB values must be between 0 and 255"
      [] e = "Invalid HSL format"
           -> "Invalid color format: Invalid HSL format"

\* ColorInput.color_must_not_be_empty: the stripped color, or a refusal
color_must_not_be_empty(v) ==
    IF Strip(v) = <<>> THEN [ok |-> FALSE, error |-> "Color value cannot be empty"]
    ELSE [ok |-> TRUE, value |-> Strip(v)]

\* the ColorOutput built from r, g, b and the result c of _rgb_to_hsl
ColorOutput(color, input_format, r, g, b, c) ==
    IF ~c.ok THEN ColorError(color, c.type, c.error)
    ELSE [status |-> "ok",
          input_color |-> color,
          input_format |-> input_format,
          hex |-> <<CH.hash>> \o Hex02(r) \o Hex02(g) \o Hex02(b),
          rgb |-> [r |-> r, g |-> g, b |-> b],
          hsl |-> [h |-> c.h, s |-> c.s, l |-> c.l],
          css_rgb |-> <<114, 103, 98, 40>> \o DecStr(r) \o <<44, 32>>
                      \o DecStr(g) \o <<44, 32>> \o DecStr(b) \o <<41>>,
          css_hsl |-> <<104, 115, 108, 40>> \o DecStr(c.h)
                      \o <<44, 32>> \o DecStr(c.s) \o <<37, 44, 32>>
                      \o DecStr(c.l) \o <<37, 41>>]
\* the second half of the try block: convert what was parsed
color_convert(color, input_format, parsed) ==
    IF ~parsed.ok
    THEN ColorError(color, "ValueError", InvalidColorFormat(parsed.error))
    ELSE ColorOutput(color, input_format, parsed.r, parsed.g, parsed.b,
                     _rgb_to_hsl(parsed.r, parsed.g, parsed.b))
\* the first half: which notation the color starts with
color_format(color) ==
    IF StartsWith(color, <<CH.hash>>) THEN "hex"
    ELSE IF StartsWith(color, <<114, 103, 98>>) THEN "rgb"
    ELSE IF StartsWith(color, <<104, 115, 108>>) THEN "hsl"
    ELSE "hex"
color_parse(color, input_format) ==
    IF input_format = "rgb" THEN _parse_rgb(color)
    ELSE IF input_format = "hsl" THEN _parse_hsl(color)
    ELSE _parse_hex(color)
\* ColorTool.execute: the ColorOutput, or the exception that leaves it
color_execute(input) ==
    color_convert(Strip(input), color_format(Strip(input)),
                  color_parse(Strip(input), color_format(Strip(input))))

(***************************************************************************)
(* BaseTool.run of the color tool                                          *)
(***************************************************************************)
\* validate_input, then execute; an exception of either becomes the error
color_run(input) ==
    IF ~color_must_not_be_empty(input).ok
    THEN ColorError(input, "ValidationError", color_must_not_be_empty(input).error)
    ELSE color_execute(color_must_not_be_empty(input).value)

(***************************************************************************)
(* EscapeTool.execute                                                      *)
(***************************************************************************)
\* str.lower() of the operation and format names a request may carry
lower == [ name \in {"escape", "unescape", "Escape", "UNESCAPE", "encode",
                     "html", "json", "xml", "javascript", "JSON", "yaml", ""}
             |-> CASE name = "Escape" -> "escape"
                   [] name = "UNESCAPE" -> "unescape"
                   [] name = "JSON" -> "json"
                   [] OTHER -> name ]

NoCall == [status |-> "none"]
EscapeOutput(text, out, op, fmt) ==
    [status |-> "ok", input_text |-> text, output_text |-> out,
     operation |-> op, format |-> fmt]
EscapeError(text, type, op, fmt) ==
    [status |-> "error", input_text |-> text, type |-> type,
     operation |-> op, format |-> fmt]

\* EscapeTool.execute: the EscapeOutput, or the exception that leaves it
escape_execute(text, operation, format) ==
    LET op == lower[operation]
        fmt == lower[format]
    IN  IF op \notin {"escape", "unescape"} THEN EscapeError(text, "ValueError", op, fmt)
        ELSE IF fmt \notin {"html", "json", "xml", "javascript"}
             THEN EscapeError(text, "ValueError", op, fmt)
        ELSE IF fmt = "html" THEN
            IF op = "escape" THEN EscapeOutput(text, html_escape(text), op, fmt)
            ELSE EscapeOutput(text, html_unescape(text), op, fmt)
        ELSE IF fmt = "json" THEN
            IF op = "escape" THEN EscapeOutput(text, json_escape(text), op, fmt)
            ELSE LET r == json_unescape(text)
                 IN  IF r.ok THEN EscapeOutput(text, r.value, op, fmt)
                     ELSE EscapeError(text, "UnicodeError", op, fmt)
        ELSE IF fmt = "xml" THEN
            IF op = "escape" THEN EscapeOutput(text, xml_escape(text), op, fmt)
            ELSE EscapeOutput(text, xml_unescape(text), op, fmt)
        ELSE
            IF op = "escape" THEN EscapeOutput(text, js_escape(text), op, fmt)
            ELSE EscapeOutput(text, js_unescape(text), op, fmt)

(***************************************************************************)
(* Requests to the escape tool                                             *)
(***************************************************************************)
\* longest request text, in tokens
MaxTokens == 2
\* how many evenly spaced non-BMP code points are escaped on their own
NonBmpPoints == 64

\* pieces of text the requests are built from: \ n b x41 u0041 u12 " ' a
\* e-acute U+1F600 U+0001 LF & amp; lt; < > #x27; \ud83d \ude00 x2 space
EscapeTokens ==
    { <<92>>, <<110>>, <<98>>, <<120, 52, 49>>, <<117, 48, 48, 52, 49>>,
      <<117, 49, 50>>, <<34>>, <<39>>, <<97>>, <<233>>, <<128512>>, <<1>>,
      <<10>>, <<38>>, <<97, 109, 112, 59>>, <<108, 116, 59>>, <<60>>, <<62>>,
      <<35, 120, 50, 55, 59>>, <<92, 117, 100, 56, 51, 100>>,
      <<92, 117, 100, 101, 48, 48>>, <<120, 50>>, <<32>> }

RECURSIVE TokenTexts(_)
TokenTexts(k) ==
    IF k = 0 THEN {<<>>}
    ELSE LET shorter == TokenTexts(k - 1)
         IN  shorter \cup {t \o tok : t \in shorter, tok \in EscapeTokens}

\* code points of the supplementary planes: both ends, the ends of the low
\* ten bits, and NonBmpPoints evenly spaced ones
NonBmpSample ==
    {65536, 65537, 66559, 66560, 128512, 1113088, 1114110, 1114111}
    \cup {65536 + k * (1048575 \div NonBmpPoints) : k \in 0..NonBmpPoints}

\* every ASCII code point, and code points of the rest of the basic plane:
\* both ends, the neighbours of the ASCII range and of the surrogates
BmpSample ==
    (0..127) \cup {128, 129, 159, 160, 255, 256, 937, 4095, 4096, 8364, 55295,
                   55296, 56319, 56320, 57343, 57344, 65279, 65534, 65535}
\* texts in which one escape sequence produces the backslash of another, or
\* follows an escaped backslash: \\x41, \\u0041, \x5cn, \u005cn, \x5cx41,
\* \\ud83d\ude00, the sentence a < b & c, and the entities &apos; &quot; &nbsp;
\* &amp;lt; &amp;apos;
\* and \x21, \u03A9, \u03a9, \x4F, \x5cu0041, '\x21 \u03A9'
MixedTexts ==
    { <<92, 92, 120, 52, 49>>, <<92, 92, 117, 48, 48, 52, 49>>,
      <<92, 120, 53, 99, 110>>, <<92, 117, 48, 48, 53, 99, 110>>,
      <<92, 120, 53, 99, 120, 52, 49>>,
      <<92, 92, 117, 100, 56, 51, 100, 92, 117, 100, 101, 48, 48>>,
      <<97, 32, 60, 32, 98, 32, 38, 32, 99>>,
      <<38, 97, 112, 111, 115, 59>>, <<38, 113, 117, 111, 116, 59>>,
      <<38, 110, 98, 115, 112, 59>>, <<38, 97, 109, 112, 59, 108, 116, 59>>,
      <<38, 97, 109, 112, 59, 97, 112, 111, 115, 59>>,
      <<92, 120, 50, 49>>, <<92, 117, 48, 51, 65, 57>>, <<92, 117, 48, 51, 97, 57>>,
      <<92, 120, 52, 70>>, <<92, 120, 53, 99, 117, 48, 48, 52, 49>>,
      <<92, 120, 50, 49, 32, 92, 117, 48, 51, 65, 57>> }

EscapeTexts == TokenTexts(MaxTokens) \cup {<<cp>> : cp \in NonBmpSample \cup BmpSample}
               \cup MixedTexts

\* requests that execute rejects before it looks at the text
RejectedRequests ==
    {<<"encode", "html">>, <<"escape", "yaml">>, <<"", "json">>, <<"unescape", "">>}
\* spellings of valid requests that differ from the lower-case names
MixedCaseRequests == {<<"Escape", "JSON">>, <<"UNESCAPE", "html">>}

(***************************************************************************)
(* Requests to the color tool                                              *)
(***************************************************************************)
\* how many evenly spaced values each channel of a hex input takes
ChannelSteps == 4
\* how many evenly spaced hues an hsl() input takes
HueSteps == 6

ChannelSample == {0, 1, 127, 128, 254, 255}
                 \cup {(255 * k) \div ChannelSteps : k \in 0..ChannelSteps}
HueSample == {359, 400, 720} \cup {(360 * k) \div HueSteps : k \in 0..HueSteps}
PercentSample == {0, 1, 50, 99, 100, 101, 200}
RgbSample == {0, 128, 255, 256, 300}

\* '#rrggbb' for the sampled channels
HexInputs ==
    { <<CH.hash>> \o Hex02(r) \o Hex02(g) \o Hex02(b) :
        r \in ChannelSample, g \in ChannelSample, b \in ChannelSample }

\* 0 a f F
Nibbles == {48, 97, 102, 70}
\* the spellings '#xyz', 'xyz', '#xxyyzz' and 'xxyyzz'
HexSpellings ==
    UNION { { <<CH.hash, x, y, z>>, <<x, y, z>>, <<CH.hash, x, x, y, y, z, z>>,
              <<x, x, y, y, z, z>> } : x \in Nibbles, y \in Nibbles, z \in Nibbles }

\* ff gg +f -f (space)f 0x f_ f
OddPairs == { <<102, 102>>, <<103, 103>>, <<43, 102>>, <<45, 102>>, <<32, 102>>,
              <<48, 120>>, <<102, 95>>, <<102>> }
OddHexInputs ==
    { <<CH.hash>> \o x \o y \o z : x \in OddPairs, y \in OddPairs, z \in OddPairs }

RgbText(word, open, sep, close, r, g, b) ==
    word \o open \o r \o sep \o g \o sep \o b \o close
\* 'rgb(r,g,b)' and 'rgb(r, g, b)' for the sampled components
RgbInputs ==
    UNION { { RgbText(<<114, 103, 98>>, <<40>>, <<44>>, <<41>>,
                      DecStr(r), DecStr(g), DecStr(b)),
              RgbText(<<114, 103, 98>>, <<40>>, <<44, 32>>, <<41>>,
                      DecStr(r), DecStr(g), DecStr(b)) } :
            r \in RgbSample, g \in RgbSample, b \in RgbSample }
\* other spellings of rgb(1, 2, 3): rgb RGB Rgb, white space, text after ')',
\* no ')', leading zeros
RgbSpellings ==
    { RgbText(word, open, sep, close, r, <<50>>, <<51>>) :
        word \in {<<114, 103, 98>>, <<82, 71, 66>>, <<82, 103, 98>>},
        open \in {<<40>>, <<32, 40, 32>>},
        sep \in {<<44>>, <<32, 44, 32>>},
        close \in {<<41>>, <<32, 41>>, <<41, 120>>, <<>>},
        r \in {<<49>>, <<48, 48, 49>>, <<45, 49>>, <<49, 46, 53>>} }

\* 'hsl(h, s%, l%)' for the sampled components, which include percentages
\* above 100 and hues of 360 and more
HslInputs ==
    { <<104, 115, 108, 40>> \o DecStr(h) \o <<44, 32>> \o DecStr(s)
      \o <<37, 44, 32>> \o DecStr(l) \o <<37, 41>> :
        h \in HueSample, s \in PercentSample, l \in PercentSample }
\* other spellings of hsl(120, 50%, 50%): HSL, Hsl, white space, no percent sign
HslSpellings ==
    { word \o open \o <<49, 50, 48>> \o <<44>> \o <<53, 48>> \o pct \o <<44>>
      \o <<53, 48>> \o pct \o close :
        word \in {<<104, 115, 108>>, <<72, 83, 76>>, <<72, 115, 108>>},
        open \in {<<40>>, <<32, 40, 32>>},
        pct \in {<<37>>, <<>>, <<32, 37>>},
        close \in {<<41>>, <<32, 41>>, <<>>} }

\* not_a_color, the empty text, '#', 'rgb', ' #fff ', '##fff', '#ff00aa80',
\* '#05f4f0', '#fffefd', '#000103', '#010131', '#d0d0fb'
OtherInputs ==
    { <<110, 111, 116, 95, 97, 95, 99, 111, 108, 111, 114>>, <<>>, <<35>>, <<114, 103, 98>>,
      <<32, 35, 102, 102, 102, 32>>, <<35, 35, 102, 102, 102>>,
      <<35, 102, 102, 48, 48, 97, 97, 56, 48>>, <<35, 48, 53, 102, 52, 102, 48>>, <<35, 102, 102, 102, 101, 102, 100>>,
      <<35, 48, 48, 48, 49, 48, 51>>, <<35, 48, 49, 48, 49, 51, 49>>,
      <<35, 100, 48, 100, 48, 102, 98>> }

ColorInputs == HexInputs \cup HexSpellings \cup OddHexInputs \cup RgbInputs
               \cup RgbSpellings \cup HslInputs \cup HslSpellings \cup OtherInputs

(***************************************************************************)
(* BaseTool.run, one statement at a time                                   *)
(***************************************************************************)
\* how many threads call run at the same time
MaxThreads == 2
Threads == 1..MaxThreads

\* the instance state BaseTool.__init__ sets: _config, of which run reads
\* the name
ToolInstances ==
    [tool \in {"escape", "color"} |-> [_config |-> [name |-> tool]]]
\* ToolRegistry._tools, a dictionary in insertion order, after the modules
\* of the two plugins are imported
RegisteredTools ==
    << [name |-> "escape", cls |-> "EscapeTool"],
       [name |-> "color", cls |-> "ColorTool"] >>

\* the input dictionaries the threads pass to run: for the escape tool
\* {text: 'a<'}, {text: '\', operation: unescape, format: json},
\* {text: 'a', operation: encode}, {operation: escape},
\* {text: '"', format: javascript}; for the color tool {color: '#fff'},
\* {color: ' '}, {color: 'rgb(300,0,0)'}, {extra: '1'}
RunRequests ==
    { [tool |-> "escape", input_data |-> d] :
        d \in { [text |-> <<97, 60>>],
                [text |-> <<92>>, operation |-> "unescape", format |-> "json"],
                [text |-> <<97>>, operation |-> "encode"],
                [operation |-> "escape"],
                [text |-> <<34>>, format |-> "javascript"] } }
    \cup
    { [tool |-> "color", input_data |-> d] :
        d \in { [color |-> <<35, 102, 102, 102>>],
                [color |-> <<32>>],
                [color |-> <<114, 103, 98, 40, 51, 48, 48, 44, 48, 44, 48, 41>>],
                [extra |-> <<49>>] } }

\* an exception on its way to the except clause of run
Raised(type, msg) == [status |-> "error", type |-> type, error |-> msg]

\* input_model.model_validate(data): the validated model, or the
\* ValidationError (its message shortened to the failing rule)
validate_input(tool, data) ==
    IF tool = "escape" THEN
        IF "text" \notin DOMAIN data THEN Raised("ValidationError", "Field required")
        ELSE [status |-> "ok",
              text |-> data.text,
              operation |-> IF "operation" \in DOMAIN data THEN data.operation
                            ELSE "escape",
              format |-> IF "format" \in DOMAIN data THEN data.format ELSE "html"]
    ELSE
        IF "color" \notin DOMAIN data THEN Raised("ValidationError", "Field required")
        ELSE IF ~color_must_not_be_empty(data.color).ok
             THEN Raised("ValidationError", color_must_not_be_empty(data.color).error)
        ELSE [status |-> "ok", color |-> color_must_not_be_empty(data.color).value]

\* str(e) of an exception that leaves execute
exception_message(e) ==
    IF "error" \in DOMAIN e THEN e.error
    ELSE IF e.type = "UnicodeError" THEN "codec can't decode or encode"
    ELSE IF e.operation \notin {"escape", "unescape"}
         THEN "operation must be 'escape' or 'unescape'"
    ELSE "format must be one of: html, json, xml, javascript"
\* what leaves execute: the output model, or the exception
Outcome(out) ==
    IF out.status = "ok" THEN out ELSE Raised(out.type, exception_message(out))

\* self.execute(validated_input)
execute(tool, validated_input) ==
    IF tool = "escape"
    THEN Outcome(escape_execute(validated_input.text, validated_input.operation,
                                validated_input.format))
    ELSE Outcome(color_execute(validated_input.color))

\* output.model_dump(): the fields of the output model
format_output(output) == [k \in DOMAIN output \ {"status"} |-> output[k]]

\* an except clause that returns the message and the class name only
ErrorEnvelope_without_tool(e, self) == [error |-> e.error, type |-> e.type]
\* the dictionary of the except clause
ErrorEnvelope(e, self) ==
    [error |-> e.error, type |-> e.type, tool |-> self._config.name]

\* the first two statements of the try block: an exception of
\* validate_input skips execute
validate_and_execute(tool, validated) ==
    IF validated.status # "ok" THEN validated ELSE execute(tool, validated)
\* the return of the try block, or the return of the except clause
run_return(self, result) ==
    IF result.status # "ok" THEN ErrorEnvelope(result, self)
    ELSE format_output(result)
\* run called alone
run(self, tool, input_data) ==
    run_return(self, validate_and_execute(tool, validate_input(tool, input_data)))

(***************************************************************************)
(* ToolRegistry                                                            *)
(***************************************************************************)
\* how many calls of the registry a behaviour makes
MaxCalls == 4

\* the classes handed to register_tool: whether BaseTool is among their
\* bases, and cls.__name__.lower().replace('tool', '')
ToolClasses ==
    [cls \in {"EscapeTool", "ColorTool", "ToolBox"} |->
        [is_tool |-> cls # "ToolBox",
         default_name |-> CASE cls = "EscapeTool" -> "escape"
                            [] cls = "ColorTool" -> "color"
                            [] cls = "ToolBox" -> "box"]]
\* the name arguments of register_tool (None, or a name) and of get_tool
ToolNames == {"escape", "color", "x"}
NameArguments ==
    {[is_none |-> TRUE]} \cup {[is_none |-> FALSE, value |-> n] : n \in ToolNames}

\* name in self._tools
IsRegistered(tools, name) == \E i \in 1..Len(tools) : tools[i].name = name
\* self._tools.get(name) of a registered name
ClassOf(tools, name) ==
    tools[CHOOSE i \in 1..Len(tools) : tools[i].name = name].cls

\* the name register_tool registers cls under
register_name(cls, name) ==
    IF name.is_none THEN ToolClasses[cls].default_name ELSE name.value
\* a register_tool that binds an already registered name to the new class
register_tool_rebinding(tools, cls, name) ==
    IF ~ToolClasses[cls].is_tool
    THEN [tools |-> tools, status |-> "error", type |-> "ValueError"]
    ELSE IF IsRegistered(tools, register_name(cls, name))
    THEN [tools |-> [i \in 1..Len(tools) |->
                        IF tools[i].name = register_name(cls, name)
                        THEN [name |-> tools[i].name, cls |-> cls] ELSE tools[i]],
          status |-> "ok", type |-> "None"]
    ELSE [tools |-> Append(tools, [name |-> register_name(cls, name), cls |-> cls]),
          status |-> "ok", type |-> "None"]
\* register_tool: self._tools afterwards, and whether ValueError was raised
register_tool(tools, cls, name) ==
    IF IsRegistered(tools, register_name(cls, name))
    THEN [tools |-> tools, status |-> "error", type |-> "ValueError"]
    ELSE IF ~ToolClasses[cls].is_tool
    THEN [tools |-> tools, status |-> "error", type |-> "ValueError"]
    ELSE [tools |-> Append(tools, [name |-> register_name(cls, name), cls |-> cls]),
          status |-> "ok", type |-> "None"]

\* an instance that is handed out again when its class has one already
shared_instance(objects, cls, call) ==
    IF \E i \in 1..Len(objects) : objects[i].cls = cls THEN objects
    ELSE Append(objects, [cls |-> cls, made_by |-> call])
\* tool_class(): the objects of the program with one more instance of cls
new_instance(objects, cls, call) == Append(objects, [cls |-> cls, made_by |-> call])
\* the reference get_tool returns: the instance of cls made last
returned_instance(objects, cls) ==
    CHOOSE i \in 1..Len(objects) :
        /\ objects[i].cls = cls
        /\ \A j \in (i + 1)..Len(objects) : objects[j].cls # cls

(***************************************************************************)
(* EpochTool (plugins/epoch_tool.py).  A Python int has no width: it is    *)
(* held as a sign and the decimal digits of its magnitude, without leading *)
(* zeros.  The calendar texts of the output (utc, local, relative) are     *)
(* renderings of epoch and are left out.                                   *)
(***************************************************************************)
\* the int with a sign and the digits of a magnitude
PyInt(neg, digits) ==
    IF StripZeros(digits) = <<>> THEN [neg |-> FALSE, digits |-> <<CH.zero>>]
    ELSE [neg |-> neg, digits |-> StripZeros(digits)]

\* str(v) of an int
IntStr(v) == IF v.neg THEN <<CH.minus>> \o v.digits ELSE v.digits

\* the digits of a literal of int(): digits, single underscores between them
IsIntBody(s) ==
    /\ s # <<>>
    /\ \A i \in 1..Len(s) :
          \/ IsDigit(s[i])
          \/ /\ s[i] = CH.underscore
             /\ i > 1 /\ i < Len(s)
             /\ IsDigit(s[i - 1]) /\ IsDigit(s[i + 1])

\* int(s) of a text of ASCII characters: white space around, a sign, the digits
py_int_body(t) ==
    IF t # <<>> /\ t[1] \in {CH.plus, CH.minus}
    THEN [ok |-> IsIntBody(Tail(t)),
          value |-> PyInt(t[1] = CH.minus, SelectSeq(Tail(t), IsDigit))]
    ELSE [ok |-> IsIntBody(t), value |-> PyInt(FALSE, SelectSeq(t, IsDigit))]
py_int(s) == py_int_body(Strip(s))

RECURSIVE IncDigits(_)
\* the digits of a magnitude plus one
IncDigits(d) ==
    IF d = <<>> THEN <<CH.zero + 1>>
    ELSE IF d[Len(d)] = CH.nine THEN Append(IncDigits(SubSeq(d, 1, Len(d) - 1)), CH.zero)
    ELSE SubSeq(d, 1, Len(d) - 1) \o <<d[Len(d)] + 1>>

\* the digits of a magnitude divided by 1000, and whether a remainder is left
Thousands(d) == IF Len(d) > 3 THEN SubSeq(d, 1, Len(d) - 3) ELSE <<CH.zero>>
HasRemainder(d) ==
    \E i \in 1..Len(d) : i > Len(d) - 3 /\ d[i] # CH.zero

\* v // 1000: the quotient rounded towards minus infinity
floordiv_1000(v) ==
    IF v.neg /\ HasRemainder(v.digits) THEN PyInt(TRUE, IncDigits(Thousands(v.digits)))
    ELSE PyInt(v.neg, Thousands(v.digits))

\* a magnitude is at most another
DigitsLeq(a, b) ==
    \/ Len(a) < Len(b)
    \/ /\ Len(a) = Len(b)
       /\ \/ a = b
          \/ \E i \in 1..Len(a) : a[i] < b[i] /\ \A j \in 1..(i - 1) : a[j] = b[j]

\* the seconds datetime can hold: 0001-01-01 to 9999-12-31 23:59:59 (the local
\* time zone, taken to be UTC, moves the limits of line 71 by its offset)
MaxTimestamp == <<50, 53, 51, 52, 48, 50, 51, 48, 48, 55, 57, 57>>
MinTimestamp == <<54, 50, 49, 51, 53, 53, 57, 54, 56, 48, 48>>
fromtimestamp_ok(epoch) ==
    IF epoch.neg THEN DigitsLeq(epoch.digits, MinTimestamp)
    ELSE DigitsLeq(epoch.digits, MaxTimestamp)

\* what datetime.fromtimestamp raises for seconds it cannot hold depends on
\* the size of the value and on the platform's time_t
RangeErrors == {"ValueError", "OSError", "OverflowError"}

\* EpochInput.validate_timestamp, on the timestamp of a request: a key that is
\* absent, null, a text or an int
validate_timestamp(v) ==
    IF v.kind \in {"absent", "null"} THEN [is_none |-> TRUE]
    ELSE IF v.kind = "int" THEN [is_none |-> FALSE, value |-> IntStr(v.value)]
    ELSE IF Strip(v.text) = <<>> THEN [is_none |-> TRUE]
    ELSE [is_none |-> FALSE, value |-> Strip(v.text)]

\* lines 69-108: the output of the seconds in epoch
epoch_output(epoch, range_error) ==
    IF fromtimestamp_ok(epoch) THEN [status |-> "ok", epoch |-> epoch]
    ELSE [status |-> "error", type |-> range_error]

\* lines 59-67 on a parsed text
epoch_of_text(timestamp_str, parsed, range_error) ==
    IF ~parsed.ok THEN [status |-> "error", type |-> "ValueError"]
    ELSE IF Len(timestamp_str) >= 13
    THEN epoch_output(floordiv_1000(parsed.value), range_error)
    ELSE epoch_output(parsed.value, range_error)

\* EpochTool.execute at the time time_time, on a platform whose
\* datetime.fromtimestamp raises range_error
epoch_execute(timestamp, time_time, range_error) ==
    IF timestamp.is_none
    THEN epoch_output(PyInt(FALSE, DecDigits(time_time)), range_error)
    ELSE epoch_of_text(Strip(timestamp.value), py_int(Strip(timestamp.value)),
                       range_error)

\* what a call of the epoch tool leaves: the request, the time of the call
\* and the outcome of execute on the validated timestamp
epoch_run(request, time_time, range_error) ==
    [request |-> request, at |-> time_time,
     out |-> epoch_execute(validate_timestamp(request), time_time, range_error)]

\* the timestamps of the requests: 1577836800, 1577836800000, 0, 999999999999,
\* 253402300799, 1000000000000, 0000000000001, +170000000000, 1_700_000_000,
\* -1577836800000, -1500, -1000000000001, ' 1577836800 ', -170000000000, '',
\* ' ', not_a_number, 1.5, 1e3, 12_, 9999999999999999,
\* 99999999999999999999999, the ints 1577836800, 1577836800000 and -5, null,
\* and no timestamp
EpochRequests ==
    { [kind |-> "absent"], [kind |-> "null"],
      [kind |-> "int", value |-> PyInt(FALSE, <<49, 53, 55, 55, 56, 51, 54, 56, 48, 48>>)],
      [kind |-> "int",
       value |-> PyInt(FALSE, <<49, 53, 55, 55, 56, 51, 54, 56, 48, 48, 48, 48, 48>>)],
      [kind |-> "int", value |-> PyInt(TRUE, <<53>>)],
      [kind |-> "str", text |-> <<49, 53, 55, 55, 56, 51, 54, 56, 48, 48>>],
      [kind |-> "str", text |-> <<49, 53, 55, 55, 56, 51, 54, 56, 48, 48, 48, 48, 48>>],
      [kind |-> "str", text |-> <<48>>],
      [kind |-> "str", text |-> <<57, 57, 57, 57, 57, 57, 57, 57, 57, 57, 57, 57>>],
      [kind |-> "str", text |-> <<50, 53, 51, 52, 48, 50, 51, 48, 48, 55, 57, 57>>],
      [kind |-> "str", text |-> <<49, 48, 48, 48, 48, 48, 48, 48, 48, 48, 48, 48, 48>>],
      [kind |-> "str", text |-> <<48, 48, 48, 48, 48, 48, 48, 48, 48, 48, 48, 48, 49>>],
      [kind |-> "str", text |-> <<43, 49, 55, 48, 48, 48, 48, 48, 48, 48, 48, 48, 48>>],
      [kind |-> "str", text |-> <<49, 95, 55, 48, 48, 95, 48, 48, 48, 95, 48, 48, 48>>],
      [kind |-> "str", text |-> <<45, 49, 53, 55, 55, 56, 51, 54, 56, 48, 48, 48, 48, 48>>],
      [kind |-> "str", text |-> <<45, 49, 53, 48, 48>>],
      [kind |-> "str", text |-> <<45, 49, 48, 48, 48, 48, 48, 48, 48, 48, 48, 48, 48, 49>>],
      [kind |-> "str", text |-> <<32, 49, 53, 55, 55, 56, 51, 54, 56, 48, 48, 32>>],
      [kind |-> "str", text |-> <<45, 49, 55, 48, 48, 48, 48, 48, 48, 48, 48, 48, 48>>],
      [kind |-> "str", text |-> <<>>],
      [kind |-> "str", text |-> <<32>>],
      [kind |-> "str", text |-> <<110, 111, 116, 95, 97, 95, 110, 117, 109, 98, 101, 114>>],
      [kind |-> "str", text |-> <<49, 46, 53>>],
      [kind |-> "str", text |-> <<49, 101, 51>>],
      [kind |-> "str", text |-> <<49, 50, 95>>],
      [kind |-> "str", text |-> <<57, 57, 57, 57, 57, 57, 57, 57, 57, 57, 57, 57, 57, 57, 57, 57>>],
      [kind |-> "str", text |-> <<57, 57, 57, 57, 57, 57, 57, 57, 57, 57, 57, 57, 57, 57, 57, 57, 57, 57, 57, 57, 57, 57, 57>>]
    }

\* the times of the clock, in seconds since 1970
ClockTimes == {1577836800, 1700000000, 1793491200, 1793491201}
\* the time at which the program starts
FirstTime == CHOOSE t \in ClockTimes : \A u \in ClockTimes : t <= u

(***************************************************************************)
(* json.loads and json.dumps of documents.  A value is a record: an object *)
(* with its members in the order of a dict, an array, a string, an int, a  *)
(* float held as the text of its literal, true, false or null.             *)
(***************************************************************************)
JC == [ lbrace |-> 123, rbrace |-> 125, lbracket |-> 91, rbracket |-> 93,
        colon |-> 58, dot |-> 46, e |-> 101, E |-> 69, bom |-> 65279 ]

\* json.decoder.WHITESPACE
JsonWhitespace == {CH.space, CH.tab, CH.lf, CH.cr}
SkipWhitespace(s) == LStrip(s, JsonWhitespace)

NoValue == [ok |-> FALSE]
Scanned(v, rest) == [ok |-> TRUE, value |-> v, rest |-> rest]

JObject(members) == [t |-> "object", members |-> members]
JArray(items) == [t |-> "array", items |-> items]
JString(s) == [t |-> "string", s |-> s]
JInt(v) == [t |-> "int", v |-> v]
JFloat(literal) == [t |-> "float", literal |-> literal]
JConst(name) == [t |-> name]

\* d[k] = v of a dict: a key keeps the place of its first assignment
dict_set(members, k, v) ==
    IF \E i \in 1..Len(members) : members[i].k = k
    THEN [i \in 1..Len(members) |->
             IF members[i].k = k THEN [k |-> k, v |-> v] ELSE members[i]]
    ELSE Append(members, [k |-> k, v |-> v])
HasKey(members, k) == \E i \in 1..Len(members) : members[i].k = k
\* d.get(k): the value of the key, null when the dict has none
dict_get(members, k) ==
    IF HasKey(members, k)
    THEN members[CHOOSE i \in 1..Len(members) : members[i].k = k].v
    ELSE JConst("null")

RECURSIVE DigitRun(_)
\* the number of leading decimal digits
DigitRun(s) == IF s # <<>> /\ IsDigit(Head(s)) THEN 1 + DigitRun(Tail(s)) ELSE 0

\* NUMBER_RE = (-?(?:0|[1-9]\d*))(\.\d+)?([eE][-+]?\d+)? : the lengths of the
\* three groups at the start of s, 0 for a group that does not match
IntegerLen(s) ==
    IF s # <<>> /\ Head(s) = CH.minus
    THEN IF Len(s) >= 2 /\ s[2] = CH.zero THEN 2
         ELSE IF DigitRun(Tail(s)) > 0 THEN 1 + DigitRun(Tail(s)) ELSE 0
    ELSE IF s # <<>> /\ Head(s) = CH.zero THEN 1
    ELSE DigitRun(s)
FracLen(s) ==
    IF s # <<>> /\ Head(s) = JC.dot /\ DigitRun(Tail(s)) > 0
    THEN 1 + DigitRun(Tail(s)) ELSE 0
ExpLen(s) ==
    IF s # <<>> /\ Head(s) \in {JC.e, JC.E}
    THEN IF Len(s) >= 2 /\ s[2] \in {CH.plus, CH.minus}
         THEN IF DigitRun(Drop(s, 2)) > 0 THEN 2 + DigitRun(Drop(s, 2)) ELSE 0
         ELSE IF DigitRun(Tail(s)) > 0 THEN 1 + DigitRun(Tail(s)) ELSE 0
    ELSE 0
\* the number whose literal has the groups of lengths il, fl and el
NumberOf(s, il, fl, el) ==
    IF fl = 0 /\ el = 0
    THEN Scanned(JInt(PyInt(Head(s) = CH.minus, SelectSeq(SubSeq(s, 1, il), IsDigit))),
                 Drop(s, il))
    ELSE Scanned(JFloat(SubSeq(s, 1, il + fl + el)), Drop(s, il + fl + el))
match_number_frac(s, il, fl) == NumberOf(s, il, fl, ExpLen(Drop(s, il + fl)))
match_number_int(s, il) ==
    IF il = 0 THEN NoValue ELSE match_number_frac(s, il, FracLen(Drop(s, il)))
match_number(s) == match_number_int(s, IntegerLen(s))

Text_null == <<110, 117, 108, 108>>
Text_true == <<116, 114, 117, 101>>
Text_false == <<102, 97, 108, 115, 101>>
Text_NaN == <<78, 97, 78>>
Text_Infinity == <<73, 110, 102, 105, 110, 105, 116, 121>>

\* the constants of the scanner, tried after the number
scan_constant(s) ==
    IF StartsWith(s, Text_NaN) THEN Scanned(JFloat(Text_NaN), Drop(s, 3))
    ELSE IF StartsWith(s, Text_Infinity) THEN Scanned(JFloat(Text_Infinity), Drop(s, 8))
    ELSE IF StartsWith(s, <<CH.minus>> \o Text_Infinity)
    THEN Scanned(JFloat(<<CH.minus>> \o Text_Infinity), Drop(s, 9))
    ELSE NoValue
scan_number(s, m) == IF m.ok THEN m ELSE scan_constant(s)

RECURSIVE scan_once(_)
RECURSIVE JSONObject(_, _)
RECURSIVE JSONObject_value(_, _)
RECURSIVE JSONObject_next(_, _, _)
RECURSIVE JSONArray(_, _)
RECURSIVE JSONArray_next(_, _)

\* the members of an object from a key on; s starts at the quote of the key
JSONObject(s, members) ==
    IF s = <<>> \/ Head(s) # CH.dquote THEN NoValue
    ELSE JSONObject_value(scanstring(Tail(s), <<>>), members)
\* after the key: the colon and the value
JSONObject_value(key, members) ==
    IF ~key.ok THEN NoValue
    ELSE IF SkipWhitespace(key.rest) = <<>> \/ Head(SkipWhitespace(key.rest)) # JC.colon
    THEN NoValue
    ELSE JSONObject_next(key.value,
                         scan_once(SkipWhitespace(Tail(SkipWhitespace(key.rest)))),
                         members)
\* after the value: a comma and the next key, or the closing brace
JSONObject_next(k, val, members) ==
    IF ~val.ok THEN NoValue
    ELSE IF SkipWhitespace(val.rest) = <<>> THEN NoValue
    ELSE IF Head(SkipWhitespace(val.rest)) = JC.rbrace
    THEN Scanned(JObject(dict_set(members, k, val.value)), Tail(SkipWhitespace(val.rest)))
    ELSE IF Head(SkipWhitespace(val.rest)) = CH.comma
    THEN JSONObject(SkipWhitespace(Tail(SkipWhitespace(val.rest))),
                    dict_set(members, k, val.value))
    ELSE NoValue

\* the items of an array from a value on
JSONArray(s, items) == JSONArray_next(scan_once(s), items)
JSONArray_next(val, items) ==
    IF ~val.ok THEN NoValue
    ELSE IF SkipWhitespace(val.rest) = <<>> THEN NoValue
    ELSE IF Head(SkipWhitespace(val.rest)) = JC.rbracket
    THEN Scanned(JArray(Append(items, val.value)), Tail(SkipWhitespace(val.rest)))
    ELSE IF Head(SkipWhitespace(val.rest)) = CH.comma
    THEN JSONArray(SkipWhitespace(Tail(SkipWhitespace(val.rest))),
                   Append(items, val.value))
    ELSE NoValue

\* the string found by scanstring as a value
scan_string(r) == IF r.ok THEN Scanned(JString(r.value), r.rest) ELSE NoValue

\* json.scanner: the value at the start of s
scan_once(s) ==
    IF s = <<>> THEN NoValue
    ELSE IF Head(s) = CH.dquote THEN scan_string(scanstring(Tail(s), <<>>))
    ELSE IF Head(s) = JC.lbrace
    THEN IF SkipWhitespace(Tail(s)) # <<>> /\ Head(SkipWhitespace(Tail(s))) = JC.rbrace
         THEN Scanned(JObject(<<>>), Tail(SkipWhitespace(Tail(s))))
         ELSE JSONObject(SkipWhitespace(Tail(s)), <<>>)
    ELSE IF Head(s) = JC.lbracket
    THEN IF SkipWhitespace(Tail(s)) # <<>> /\ Head(SkipWhitespace(Tail(s))) = JC.rbracket
         THEN Scanned(JArray(<<>>), Tail(SkipWhitespace(Tail(s))))
         ELSE JSONArray(SkipWhitespace(Tail(s)), <<>>)
    ELSE IF StartsWith(s, Text_null) THEN Scanned(JConst("null"), Drop(s, 4))
    ELSE IF StartsWith(s, Text_true) THEN Scanned(JConst("true"), Drop(s, 4))
    ELSE IF StartsWith(s, Text_false) THEN Scanned(JConst("false"), Drop(s, 5))
    ELSE scan_number(s, match_number(s))

\* json.loads(doc) of a str: one value with white space around it
loads_end(r) ==
    IF r.ok /\ SkipWhitespace(r.rest) = <<>> THEN [ok |-> TRUE, value |-> r.value]
    ELSE NoValue
loads(doc) ==
    IF doc # <<>> /\ Head(doc) = JC.bom THEN NoValue
    ELSE loads_end(scan_once(SkipWhitespace(doc)))

\* a text is before another in the order of str
TextLess(a, b) ==
    \/ /\ Len(a) < Len(b)
       /\ SubSeq(b, 1, Len(a)) = a
    \/ \E i \in 1..Len(a) :
          /\ i <= Len(b)
          /\ a[i] < b[i]
          /\ \A j \in 1..(i - 1) : a[j] = b[j]

RECURSIVE sorted_members(_)
\* sorted(dct.items()): by key, smallest first
sorted_members(members) ==
    IF members = <<>> THEN <<>>
    ELSE <<members[CHOOSE i \in 1..Len(members) :
                      \A j \in 1..Len(members) : ~TextLess(members[j].k, members[i].k)]>>
         \o sorted_members(
              SelectSeq(members,
                        LAMBDA m : \E j \in 1..Len(members) : TextLess(members[j].k, m.k)))

Spaces(n) == [i \in 1..n |-> CH.space]

\* float.__repr__ of the float of a literal with digits on both sides of the
\* point, no exponent and at most 15 significant digits, of a magnitude from
\* 0.0001: the literal without the zeros at its end.  Other literals are not
\* among the documents and keep their text.
RECURSIVE StripFracZeros(_)
StripFracZeros(s) ==
    IF s[Len(s)] = CH.zero /\ s[Len(s) - 1] # JC.dot
    THEN StripFracZeros(SubSeq(s, 1, Len(s) - 1)) ELSE s
float_repr(literal) ==
    IF \E i \in 1..Len(literal) : literal[i] = JC.dot
    THEN IF \E i \in 1..Len(literal) : literal[i] \in {JC.e, JC.E}
         THEN literal ELSE StripFracZeros(literal)
    ELSE literal

RECURSIVE dumps(_, _, _)
RECURSIVE dumps_members(_, _, _)
RECURSIVE dumps_items(_, _, _)

\* the separator between items and the text before the closing bracket:
\* indent is -1 for no indentation (separators=(',', ':'))
ItemSeparator(indent, level) ==
    IF indent < 0 THEN <<CH.comma>>
    ELSE <<CH.comma, CH.lf>> \o Spaces(indent * (level + 1))
Opening(indent, level) ==
    IF indent < 0 THEN <<>> ELSE <<CH.lf>> \o Spaces(indent * (level + 1))
Closing(indent, level) ==
    IF indent < 0 THEN <<>> ELSE <<CH.lf>> \o Spaces(indent * level)
KeySeparator(indent) == IF indent < 0 THEN <<JC.colon>> ELSE <<JC.colon, CH.space>>

dumps_members(members, indent, level) ==
    IF members = <<>> THEN <<>>
    ELSE <<CH.dquote>> \o json_dumps_body(Head(members).k) \o <<CH.dquote>>
         \o KeySeparator(indent) \o dumps(Head(members).v, indent, level + 1)
         \o (IF Len(members) > 1 THEN ItemSeparator(indent, level) ELSE <<>>)
         \o dumps_members(Tail(members), indent, level)
dumps_items(items, indent, level) ==
    IF items = <<>> THEN <<>>
    ELSE dumps(Head(items), indent, level + 1)
         \o (IF Len(items) > 1 THEN ItemSeparator(indent, level) ELSE <<>>)
         \o dumps_items(Tail(items), indent, level)

\* json.dumps(v, ensure_ascii=False) with indent=2, sort_keys=True (indent 2)
\* or with separators=(',', ':') (indent -1), at a nesting level
dumps(v, indent, level) ==
    CASE v.t = "object" ->
            IF v.members = <<>> THEN <<JC.lbrace, JC.rbrace>>
            ELSE <<JC.lbrace>> \o Opening(indent, level)
                 \o dumps_members(IF indent < 0 THEN v.members
                                  ELSE sorted_members(v.members), indent, level)
                 \o Closing(indent, level) \o <<JC.rbrace>>
      [] v.t = "array" ->
            IF v.items = <<>> THEN <<JC.lbracket, JC.rbracket>>
            ELSE <<JC.lbracket>> \o Opening(indent, level)
                 \o dumps_items(v.items, indent, level)
                 \o Closing(indent, level) \o <<JC.rbracket>>
      [] v.t = "string" -> <<CH.dquote>> \o json_dumps_body(v.s) \o <<CH.dquote>>
      [] v.t = "int" -> IntStr(v.v)
      [] v.t = "float" -> float_repr(v.literal)
      [] v.t = "null" -> Text_null
      [] v.t = "true" -> Text_true
      [] v.t = "false" -> Text_false

(***************************************************************************)
(* JWTTool (plugins/jwt_tool.py)                                           *)
(***************************************************************************)
\* the value of a character of the base64 alphabet: urlsafe_b64decode turns
\* - and _ into + and / and leaves + and / as they are
IsB64(c) ==
    \/ (c >= 65 /\ c <= 90) \/ (c >= 97 /\ c <= 122) \/ IsDigit(c)
    \/ c \in {CH.plus, CH.minus, CH.slash, CH.underscore}
B64Value(c) ==
    IF c >= 65 /\ c <= 90 THEN c - 65
    ELSE IF c >= 97 /\ c <= 122 THEN c - 71
    ELSE IF IsDigit(c) THEN c + 4
    ELSE IF c \in {CH.plus, CH.minus} THEN 62
    ELSE 63
B64Pad == 61

\* binascii.a2b_base64, not strict.  Characters outside the alphabet are
\* skipped.  A padding character counts when half a quad or more has been
\* read, and the one that completes the quad ends the data; what follows it
\* is not read.  Without such a padding the data must be whole quads.
DataBefore(s, i) == Len(SelectSeq(SubSeq(s, 1, i - 1), IsB64))
PadsUpTo(s, i) ==
    Cardinality({j \in 1..i : /\ s[j] = B64Pad
                              /\ \A k \in j..i : ~IsB64(s[k])})
EndsData(s, i) ==
    /\ s[i] = B64Pad
    /\ DataBefore(s, i) % 4 >= 2
    /\ (DataBefore(s, i) % 4) + PadsUpTo(s, i) >= 4
\* the bytes of the characters of the alphabet in d: three of each quad
B64Byte(d, k) ==
    IF (k - 1) % 3 = 0
    THEN B64Value(d[4 * ((k - 1) \div 3) + 1]) * 4
         + (B64Value(d[4 * ((k - 1) \div 3) + 2]) \div 16)
    ELSE IF (k - 1) % 3 = 1
    THEN (B64Value(d[4 * ((k - 1) \div 3) + 2]) % 16) * 16
         + (B64Value(d[4 * ((k - 1) \div 3) + 3]) \div 4)
    ELSE (B64Value(d[4 * ((k - 1) \div 3) + 3]) % 4) * 64
         + B64Value(d[4 * ((k - 1) \div 3) + 4])
B64Bytes(d) == [k \in 1..((Len(d) * 3) \div 4) |-> B64Byte(d, k)]
a2b_base64(s) ==
    IF \E i \in 1..Len(s) : EndsData(s, i)
    THEN Ok(B64Bytes(SelectSeq(
                SubSeq(s, 1, CHOOSE i \in 1..Len(s) :
                                /\ EndsData(s, i)
                                /\ \A j \in 1..(i - 1) : ~EndsData(s, j)),
                IsB64)))
    ELSE IF Len(SelectSeq(s, IsB64)) % 4 = 0 THEN Ok(B64Bytes(SelectSeq(s, IsB64)))
    ELSE Fail

\* base64.urlsafe_b64decode of a str: the text has to be ASCII
urlsafe_b64decode(data) ==
    IF \E i \in 1..Len(data) : data[i] > 127 THEN Fail
    ELSE a2b_base64(data)

IsContinuation(b) == b >= 128 /\ b <= 191
RECURSIVE utf8_decode(_, _)
\* bytes.decode('utf-8'): well-formed sequences only
utf8_decode(b, out) ==
    IF b = <<>> THEN Ok(out)
    ELSE IF b[1] < 128 THEN utf8_decode(Tail(b), Append(out, b[1]))
    ELSE IF b[1] >= 194 /\ b[1] <= 223 /\ Len(b) >= 2 /\ IsContinuation(b[2])
    THEN utf8_decode(Drop(b, 2), Append(out, (b[1] - 192) * 64 + (b[2] - 128)))
    ELSE IF /\ b[1] >= 224 /\ b[1] <= 239 /\ Len(b) >= 3
            /\ IsContinuation(b[2]) /\ IsContinuation(b[3])
            /\ (b[1] = 224 => b[2] >= 160)
            /\ (b[1] = 237 => b[2] <= 159)
    THEN utf8_decode(Drop(b, 3),
                     Append(out, (b[1] - 224) * 4096 + (b[2] - 128) * 64 + (b[3] - 128)))
    ELSE IF /\ b[1] >= 240 /\ b[1] <= 244 /\ Len(b) >= 4
            /\ IsContinuation(b[2]) /\ IsContinuation(b[3]) /\ IsContinuation(b[4])
            /\ (b[1] = 240 => b[2] >= 144)
            /\ (b[1] = 244 => b[2] <= 143)
    THEN utf8_decode(Drop(b, 4),
                     Append(out, (b[1] - 240) * 262144 + (b[2] - 128) * 4096
                                 + (b[3] - 128) * 64 + (b[4] - 128)))
    ELSE Fail

\* JWTTool._decode_base64_url: padding, base64, UTF-8, JSON; every failure
\* is raised as ValueError
decode_text(decoded) == IF decoded.ok THEN loads(decoded.value) ELSE NoValue
decode_bytes(bytes) == IF bytes.ok THEN decode_text(utf8_decode(bytes.value, <<>>)) ELSE NoValue
_decode_base64_url(data) ==
    decode_bytes(urlsafe_b64decode(data \o [i \in 1..(4 - (Len(data) % 4)) |-> B64Pad]))

RECURSIVE split(_, _, _)
\* str.split(sep) for a separator of one character
split(s, sep, part) ==
    IF s = <<>> THEN <<part>>
    ELSE IF Head(s) = sep THEN <<part>> \o split(Tail(s), sep, <<>>)
    ELSE split(Tail(s), sep, Append(part, Head(s)))

None == [is_none |-> TRUE]
Some(v) == [is_none |-> FALSE, value |-> v]

\* a < b of two ints
PyLess(a, b) ==
    IF a.neg /\ ~b.neg THEN TRUE
    ELSE IF ~a.neg /\ b.neg THEN FALSE
    ELSE IF a.neg THEN a # b /\ DigitsLeq(b.digits, a.digits)
    ELSE a # b /\ DigitsLeq(a.digits, b.digits)

\* bool(v) of a value of a payload; the payloads hold no boolean and no float
Truthy(v) ==
    CASE v.t = "int" -> v.v # PyInt(FALSE, <<CH.zero>>)
      [] v.t = "string" -> v.s # <<>>
      [] v.t = "array" -> v.items # <<>>
      [] v.t = "object" -> v.members # <<>>
      [] v.t = "null" -> FALSE

\* JWTTool._format_timestamp: the text of the time, or 'Invalid timestamp'
\* when datetime.fromtimestamp raises
_format_timestamp(timestamp) ==
    IF timestamp.t = "int" /\ fromtimestamp_ok(timestamp.v)
    THEN [invalid |-> FALSE, strftime |-> timestamp.v]
    ELSE [invalid |-> TRUE]

\* the field of JWTOutput for a claim, Optional[int]: pydantic takes an int or
\* None and rejects a list, a dict and a text without a digit
IsOptionalInt(v) ==
    CASE v.t \in {"int", "null"} -> TRUE
      [] v.t \in {"array", "object"} -> FALSE
      [] v.t = "string" /\ \A i \in 1..Len(v.s) : ~IsDigit(v.s[i]) -> FALSE
OptionalInt(v) == IF v.t = "null" THEN None ELSE Some(v.v)

JWTError == [status |-> "error", type |-> "ValueError"]

\* lines 82-91: the output for a token that does not have three parts
InvalidFormat ==
    [status |-> "ok", valid_format |-> FALSE, header |-> <<>>, payload |-> <<>>,
     signature |-> <<>>, issued_at |-> None, expires_at |-> None,
     issued_at_readable |-> None, expires_at_readable |-> None, is_expired |-> None]

\* lines 100-123 for a decoded header and payload
jwt_output(header, payload, signature, issued_at, expires_at, current_time) ==
    IF Truthy(expires_at) /\ expires_at.t # "int" THEN JWTError
    ELSE IF ~IsOptionalInt(issued_at) \/ ~IsOptionalInt(expires_at) THEN JWTError
    ELSE IF header.t # "object" THEN JWTError
    ELSE [status |-> "ok", valid_format |-> TRUE,
          header |-> header.members, payload |-> payload.members,
          signature |-> signature,
          issued_at |-> OptionalInt(issued_at),
          expires_at |-> OptionalInt(expires_at),
          issued_at_readable |->
              IF Truthy(issued_at) THEN Some(_format_timestamp(issued_at)) ELSE None,
          expires_at_readable |->
              IF Truthy(expires_at) THEN Some(_format_timestamp(expires_at)) ELSE None,
          is_expired |->
              IF Truthy(expires_at)
              THEN Some(PyLess(expires_at.v, PyInt(FALSE, DecDigits(current_time))))
              ELSE None]

\* lines 93-126 for the parts of the token
jwt_decoded(header, payload, signature, current_time) ==
    IF ~header.ok \/ ~payload.ok THEN JWTError
    ELSE IF payload.value.t # "object" THEN JWTError
    ELSE jwt_output(header.value, payload.value, signature,
                    dict_get(payload.value.members, <<105, 97, 116>>),
                    dict_get(payload.value.members, <<101, 120, 112>>), current_time)

jwt_parts(parts, current_time) ==
    IF Len(parts) # 3 THEN InvalidFormat
    ELSE jwt_decoded(_decode_base64_url(parts[1]), _decode_base64_url(parts[2]),
                     parts[3], current_time)

\* JWTTool.execute at the time current_time
jwt_execute(token, current_time) == jwt_parts(split(Strip(token), JC.dot, <<>>), current_time)

\* JWTInput.token_must_not_be_empty, then execute
jwt_run(token, current_time) ==
    IF Strip(token) = <<>> THEN [status |-> "error", type |-> "ValidationError"]
    ELSE jwt_execute(Strip(token), current_time)

\* the tokens of the requests; header {} is e30, and the payloads are the
\* documents named before each token
JwtTokens ==
    {
      \* 'e30.eyJleHAiOjE1MTYyMzkwMjIsImlhdCI6MTUxNjIzOTAyMn0.sig'
      <<101, 51, 48, 46, 101, 121, 74, 108, 101, 72, 65, 105, 79, 106, 69, 49, 77, 
       84, 89, 121, 77, 122, 107, 119, 77, 106, 73, 115, 73, 109, 108, 104, 100, 67, 
       73, 54, 77, 84, 85, 120, 78, 106, 73, 122, 79, 84, 65, 121, 77, 110, 48, 46, 
       115, 105, 103>>,
      \* 'e30.eyJleHAiOjB9.sig'
      <<101, 51, 48, 46, 101, 121, 74, 108, 101, 72, 65, 105, 79, 106, 66, 57, 46, 
       115, 105, 103>>,
      \* 'e30.eyJleHAiOi0xfQ.sig'
      <<101, 51, 48, 46, 101, 121, 74, 108, 101, 72, 65, 105, 79, 105, 48, 120, 102, 
       81, 46, 115, 105, 103>>,
      \* 'e30.eyJleHAiOjE3MDAwMDAwMDB9.sig'
      <<101, 51, 48, 46, 101, 121, 74, 108, 101, 72, 65, 105, 79, 106, 69, 51, 77, 
       68, 65, 119, 77, 68, 65, 119, 77, 68, 66, 57, 46, 115, 105, 103>>,
      \* 'e30.eyJleHAiOjE3OTM0OTEyMDF9.sig'
      <<101, 51, 48, 46, 101, 121, 74, 108, 101, 72, 65, 105, 79, 106, 69, 51, 79, 
       84, 77, 48, 79, 84, 69, 121, 77, 68, 70, 57, 46, 115, 105, 103>>,
      \* 'e30.eyJleHAiOjIwMDAwMDAwMDB9.sig'
      <<101, 51, 48, 46, 101, 121, 74, 108, 101, 72, 65, 105, 79, 106, 73, 119, 77, 
       68, 65, 119, 77, 68, 65, 119, 77, 68, 66, 57, 46, 115, 105, 103>>,
      \* 'e30.eyJzdWIiOiJ4In0.sig'
      <<101, 51, 48, 46, 101, 121, 74, 122, 100, 87, 73, 105, 79, 105, 74, 52, 73, 
       110, 48, 46, 115, 105, 103>>,
      \* 'e30.eyJleHAiOm51bGx9.sig'
      <<101, 51, 48, 46, 101, 121, 74, 108, 101, 72, 65, 105, 79, 109, 53, 49, 98, 
       71, 120, 57, 46, 115, 105, 103>>,
      \* 'e30.eyJleHAiOiJzb29uIn0.sig'
      <<101, 51, 48, 46, 101, 121, 74, 108, 101, 72, 65, 105, 79, 105, 74, 122, 98, 
       50, 57, 117, 73, 110, 48, 46, 115, 105, 103>>,
      \* 'e30.eyJleHAiOiIifQ.sig'
      <<101, 51, 48, 46, 101, 121, 74, 108, 101, 72, 65, 105, 79, 105, 73, 105, 102, 
       81, 46, 115, 105, 103>>,
      \* 'e30.eyJleHAiOjk5OTk5OTk5OTk5OTk5OTk5OTk5fQ.sig'
      <<101, 51, 48, 46, 101, 121, 74, 108, 101, 72, 65, 105, 79, 106, 107, 53, 79, 
       84, 107, 53, 79, 84, 107, 53, 79, 84, 107, 53, 79, 84, 107, 53, 79, 84, 107, 
       53, 79, 84, 107, 53, 102, 81, 46, 115, 105, 103>>,
      \* 'e30.eyJleHAiOjAsImlhdCI6NX0.sig'
      <<101, 51, 48, 46, 101, 121, 74, 108, 101, 72, 65, 105, 79, 106, 65, 115, 73, 
       109, 108, 104, 100, 67, 73, 54, 78, 88, 48, 46, 115, 105, 103>>,
      \* 'e30.eyJpYXQiOjB9.sig'
      <<101, 51, 48, 46, 101, 121, 74, 112, 89, 88, 81, 105, 79, 106, 66, 57, 46, 
       115, 105, 103>>,
      \* 'e30.eyJpYXQiOjE1MTYyMzkwMjJ9.sig'
      <<101, 51, 48, 46, 101, 121, 74, 112, 89, 88, 81, 105, 79, 106, 69, 49, 77, 84, 
       89, 121, 77, 122, 107, 119, 77, 106, 74, 57, 46, 115, 105, 103>>,
      \* 'e30.eyJleHAiOltdfQ.sig'
      <<101, 51, 48, 46, 101, 121, 74, 108, 101, 72, 65, 105, 79, 108, 116, 100, 102, 
       81, 46, 115, 105, 103>>,
      \* 'e30.eyJleHAiOlsxXX0.sig'
      <<101, 51, 48, 46, 101, 121, 74, 108, 101, 72, 65, 105, 79, 108, 115, 120, 88, 
       88, 48, 46, 115, 105, 103>>,
      \* 'e30.eyJleHAiOiAwLCAiZXhwIjogN30.sig'
      <<101, 51, 48, 46, 101, 121, 74, 108, 101, 72, 65, 105, 79, 105, 65, 119, 76, 
       67, 65, 105, 90, 88, 104, 119, 73, 106, 111, 103, 78, 51, 48, 46, 115, 105, 
       103>>,
      \* 'e30.eyJleHAiOi0wfQ.sig'
      <<101, 51, 48, 46, 101, 121, 74, 108, 101, 72, 65, 105, 79, 105, 48, 119, 102, 
       81, 46, 115, 105, 103>>,
      \* 'e30.e30.sig'
      <<101, 51, 48, 46, 101, 51, 48, 46, 115, 105, 103>>,
      \* 'eyJhbGciOiJIUzI1NiIsInR5cCI6IkpXVCJ9.eyJleHAiOjE1MTYyMzkwMjJ9.4Adcj3UF'
      <<101, 121, 74, 104, 98, 71, 99, 105, 79, 105, 74, 73, 85, 122, 73, 49, 78, 
       105, 73, 115, 73, 110, 82, 53, 99, 67, 73, 54, 73, 107, 112, 88, 86, 67, 74, 
       57, 46, 101, 121, 74, 108, 101, 72, 65, 105, 79, 106, 69, 49, 77, 84, 89, 121, 
       77, 122, 107, 119, 77, 106, 74, 57, 46, 52, 65, 100, 99, 106, 51, 85, 70>>,
      \* '  e30.eyJleHAiOjE1MTYyMzkwMjJ9.s '
      <<32, 32, 101, 51, 48, 46, 101, 121, 74, 108, 101, 72, 65, 105, 79, 106, 69, 
       49, 77, 84, 89, 121, 77, 122, 107, 119, 77, 106, 74, 57, 46, 115, 32>>,
      \* 'a.b'
      <<97, 46, 98>>,
      \* 'e30.e30.s.x'
      <<101, 51, 48, 46, 101, 51, 48, 46, 115, 46, 120>>,
      \* 'invalid_base64.another_invalid.signature'
      <<105, 110, 118, 97, 108, 105, 100, 95, 98, 97, 115, 101, 54, 52, 46, 97, 110, 
       111, 116, 104, 101, 114, 95, 105, 110, 118, 97, 108, 105, 100, 46, 115, 105, 
       103, 110, 97, 116, 117, 114, 101>>,
      \* 'e30.W10.s'
      <<101, 51, 48, 46, 87, 49, 48, 46, 115>>,
      \* 'W10.e30.s'
      <<87, 49, 48, 46, 101, 51, 48, 46, 115>>,
      \* 'e30..s'
      <<101, 51, 48, 46, 46, 115>>,
      \* 'e30.e30.'
      <<101, 51, 48, 46, 101, 51, 48, 46>>,
      \* 'e30.eyJleHAiOjB9A.s'
      <<101, 51, 48, 46, 101, 121, 74, 108, 101, 72, 65, 105, 79, 106, 66, 57, 65, 
       46, 115>>,
      \* 'nojwt'
      <<110, 111, 106, 119, 116>>,
      \* ' '
      <<32>>
    }

(***************************************************************************)
(* JSONTool (plugins/json_tool.py)                                         *)
(***************************************************************************)
\* out.get("output_text", parse_text) of the dictionary run returns
get_output_text(out, parse_text) ==
    IF "output_text" \in DOMAIN out THEN out.output_text ELSE parse_text
\* et.run({"text": parse_text, "operation": "unescape", "format": format})
unescape_run(parse_text, format) ==
    get_output_text(run(ToolInstances.escape, "escape",
                        [text |-> parse_text, operation |-> "unescape",
                         format |-> format]),
                    parse_text)
\* lines 66-71: the HTML unescape, then the JavaScript unescape of its result
auto_unescaped(text) == unescape_run(unescape_run(text, "html"), "javascript")

\* lines 88-96: the output; parsed_data is a Dict, which only an object is
JSONOutput(formatted, parse_text, minify, parsed_data) ==
    IF parsed_data.t # "object" THEN [status |-> "error", type |-> "ValidationError"]
    ELSE [status |-> "ok", formatted |-> formatted, original |-> parse_text,
          operation |-> IF minify THEN "minify" ELSE "format", valid |-> TRUE,
          size_before |-> Len(parse_text), size_after |-> Len(formatted),
          parsed_data |-> parsed_data.members]

\* lines 82-96 for the value parsed from parse_text
json_format(parsed_data, parse_text, minify) ==
    JSONOutput(dumps(parsed_data, IF minify THEN -1 ELSE 2, 0), parse_text, minify,
               parsed_data)

\* lines 75-78: the second parse, of the unescaped text
json_second_parse(parsed, parse_text, minify) ==
    IF parsed.ok THEN json_format(parsed.value, parse_text, minify)
    ELSE [status |-> "error", type |-> "ValueError"]

\* lines 60-80: the first parse
json_first_parse(parsed, text, minify, auto_unescape) ==
    IF parsed.ok THEN json_format(parsed.value, text, minify)
    ELSE IF auto_unescape
    THEN json_second_parse(loads(auto_unescaped(text)), auto_unescaped(text), minify)
    ELSE [status |-> "error", type |-> "ValueError"]

\* JSONTool.execute
json_execute(text, minify, auto_unescape) ==
    json_first_parse(loads(text), text, minify, auto_unescape)

\* JSONInput.text_must_not_be_empty, then execute
json_run(text, minify, auto_unescape) ==
    IF Strip(text) = <<>> THEN [status |-> "error", type |-> "ValidationError"]
    ELSE json_execute(Strip(text), minify, auto_unescape)

\* the texts of the requests
JsonTexts ==
    {
      \* '{"a": 1}'
      <<123, 34, 97, 34, 58, 32, 49, 125>>,
      \* '{"b":1,"a":[1,2,{"c":null}]}'
      <<123, 34, 98, 34, 58, 49, 44, 34, 97, 34, 58, 91, 49, 44, 50, 44, 123, 34, 99, 
       34, 58, 110, 117, 108, 108, 125, 93, 125>>,
      \* ' {"a":"x"} '
      <<32, 123, 34, 97, 34, 58, 34, 120, 34, 125, 32>>,
      \* '{}'
      <<123, 125>>,
      \* '[1,2]'
      <<91, 49, 44, 50, 93>>,
      \* '"str"'
      <<34, 115, 116, 114, 34>>,
      \* '12'
      <<49, 50>>,
      \* '{"a":1.50}'
      <<123, 34, 97, 34, 58, 49, 46, 53, 48, 125>>,
      \* '{"a":tru}'
      <<123, 34, 97, 34, 58, 116, 114, 117, 125>>,
      \* 'not json'
      <<110, 111, 116, 32, 106, 115, 111, 110>>,
      \* '{&quot;a&quot;: 1}'
      <<123, 38, 113, 117, 111, 116, 59, 97, 38, 113, 117, 111, 116, 59, 58, 32, 49, 
       125>>,
      \* '{\\x22a\\x22:1}'
      <<123, 92, 120, 50, 50, 97, 92, 120, 50, 50, 58, 49, 125>>,
      \* '{"a":"&lt;"}'
      <<123, 34, 97, 34, 58, 34, 38, 108, 116, 59, 34, 125>>,
      \* '{&quot;a&quot;: &quot;\\u0041&quot;}'
      <<123, 38, 113, 117, 111, 116, 59, 97, 38, 113, 117, 111, 116, 59, 58, 32, 38, 
       113, 117, 111, 116, 59, 92, 117, 48, 48, 52, 49, 38, 113, 117, 111, 116, 59, 
       125>>,
      \* '&#123;&#125;'
      <<38, 35, 49, 50, 51, 59, 38, 35, 49, 50, 53, 59>>,
      \* '{"a":}'
      <<123, 34, 97, 34, 58, 125>>,
      \* '{"\xe9":"\xfc"}'
      <<123, 34, 233, 34, 58, 34, 252, 34, 125>>,
      \* '{"a":"\\n"}'
      <<123, 34, 97, 34, 58, 34, 92, 110, 34, 125>>,
      \* '{"b":2,"a":1}'
      <<123, 34, 98, 34, 58, 50, 44, 34, 97, 34, 58, 49, 125>>,
      \* '{"a":1,"a":2}'
      <<123, 34, 97, 34, 58, 49, 44, 34, 97, 34, 58, 50, 125>>,
      \* ''
      <<>>,
      \* ' '
      <<32>>,
      \* '{\\"a\\": 1}'
      <<123, 92, 34, 97, 92, 34, 58, 32, 49, 125>>,
      \* '{"a":[]}'
      <<123, 34, 97, 34, 58, 91, 93, 125>>,
      \* '{"a":{"b":{}}}'
      <<123, 34, 97, 34, 58, 123, 34, 98, 34, 58, 123, 125, 125, 125>>,
      \* '{"a":-0,"b":true}'
      <<123, 34, 97, 34, 58, 45, 48, 44, 34, 98, 34, 58, 116, 114, 117, 101, 125>>,
      \* '{"a":1,}'
      <<123, 34, 97, 34, 58, 49, 44, 125>>,
      \* '[&quot;a&quot;]'
      <<91, 38, 113, 117, 111, 116, 59, 97, 38, 113, 117, 111, 116, 59, 93>>,
      \* '{"a":false, "B":"\\u00e9"}'
      <<123, 34, 97, 34, 58, 102, 97, 108, 115, 101, 44, 32, 34, 66, 34, 58, 34, 92, 
       117, 48, 48, 101, 57, 34, 125>>,
      \* '{&quot;a&quot;:1} '
      <<123, 38, 113, 117, 111, 116, 59, 97, 38, 113, 117, 111, 116, 59, 58, 49, 125, 
       32>>
    }

(***************************************************************************)
(* The command line (devtools.py)                                          *)
(***************************************************************************)
\* the names registered by the import of plugins (plugins/__init__.py), in
\* the order of the imports
PluginTools == <<"base64", "url", "hash", "jwt", "json", "uuid", "epoch", "color">>

Text_token == <<116, 111, 107, 101, 110>>
Text_timestamp == <<116, 105, 109, 101, 115, 116, 97, 109, 112>>

IsSurrogate(c) == c >= 55296 /\ c <= 57343
HasSurrogate(s) == \E i \in 1..Len(s) : IsSurrogate(s[i])

RECURSIVE ValueHasSurrogate(_)
\* a string of a value, keys included, holds a surrogate code point
ValueHasSurrogate(v) ==
    CASE v.t = "string" -> HasSurrogate(v.s)
      [] v.t = "array" -> \E i \in 1..Len(v.items) : ValueHasSurrogate(v.items[i])
      [] v.t = "object" ->
            \E i \in 1..Len(v.members) :
                HasSurrogate(v.members[i].k) \/ ValueHasSurrogate(v.members[i].v)
      [] OTHER -> FALSE

\* the dictionary of the except clause of BaseTool.run; the text of str(e) is
\* ASCII and is not modelled
cli_envelope(out, tool) == [error |-> <<"str", out.type>>, type |-> out.type, tool |-> tool]
\* the return of BaseTool.run for the outcome of validate_input and execute
cli_run_return(out, tool) ==
    IF out.status = "ok" THEN format_output(out) ELSE cli_envelope(out, tool)

\* JWTInput.model_validate(input_data) and execute: the input has to be a
\* dictionary whose token is a str; other keys are ignored
jwt_validated(input_data, current_time) ==
    IF input_data.t # "object" THEN [status |-> "error", type |-> "ValidationError"]
    ELSE IF ~HasKey(input_data.members, Text_token)
    THEN [status |-> "error", type |-> "ValidationError"]
    ELSE IF dict_get(input_data.members, Text_token).t # "string"
    THEN [status |-> "error", type |-> "ValidationError"]
    ELSE jwt_run(dict_get(input_data.members, Text_token).s, current_time)

\* the timestamp of a dictionary as EpochInput.validate_timestamp receives it
epoch_request(input_data) ==
    IF ~HasKey(input_data.members, Text_timestamp) THEN [kind |-> "absent"]
    ELSE CASE dict_get(input_data.members, Text_timestamp).t = "null" -> [kind |-> "null"]
           [] dict_get(input_data.members, Text_timestamp).t = "string" ->
                 [kind |-> "str", text |-> dict_get(input_data.members, Text_timestamp).s]
           [] dict_get(input_data.members, Text_timestamp).t = "int" ->
                 [kind |-> "int", value |-> dict_get(input_data.members, Text_timestamp).v]

\* tool.run(input_data) of the tools that the requests reach
tool_run(tool, input_data, current_time, range_error) ==
    CASE tool = "jwt" -> cli_run_return(jwt_validated(input_data, current_time), tool)
      [] tool = "epoch" ->
            cli_run_return(epoch_run(epoch_request(input_data), current_time,
                                     range_error).out, tool)

\* the strings that json.dumps(result, ensure_ascii=False) writes as they are
ResultHasSurrogate(result) ==
    /\ "payload" \in DOMAIN result
    /\ \/ ValueHasSurrogate(JObject(result.header))
       \/ ValueHasSurrogate(JObject(result.payload))

\* the end of the process: what it wrote and the status it left
Exit(exit_status, stdout, stderr) ==
    [exit_status |-> exit_status, stdout |-> stdout, stderr |-> stderr]
\* output_error: the message on stderr, then sys.exit(1)
output_error(message) == Exit(1, <<>>, <<[prefix |-> "Error: ", message |-> message]>>)
\* lines 206-210: output_json(result) and return 0; print raises
\* UnicodeEncodeError for a surrogate, before anything is written
output_json(result) ==
    IF ResultHasSurrogate(result) THEN output_error("surrogates not allowed")
    ELSE Exit(0, <<result>>, <<>>)

\* execute_tool_command, then lines 206-210
execute_tool_command(tool_name, input_data, current_time, range_error) ==
    IF \A i \in 1..Len(PluginTools) : PluginTools[i] # tool_name
    THEN output_error("Tool not found")
    ELSE output_json(tool_run(tool_name, input_data, current_time, range_error))

\* lines 141-146
run_command(tool_name, parsed, current_time, range_error) ==
    IF ~parsed.ok THEN output_error("Invalid JSON input")
    ELSE execute_tool_command(tool_name, parsed.value, current_time, range_error)

\* main for the commands run, jwt and epoch
main(argv, current_time, range_error) ==
    CASE argv.command = "run" ->
            run_command(argv.tool, loads(argv.input), current_time, range_error)
      [] argv.command = "jwt" ->
            execute_tool_command("jwt",
                JObject(<<[k |-> Text_token, v |-> JString(argv.token)]>>),
                current_time, range_error)
      [] argv.command = "epoch" ->
            execute_tool_command("epoch",
                JObject(<<[k |-> Text_timestamp, v |-> argv.timestamp]>>),
                current_time, range_error)

\* the input arguments of the run command; the payload of the second token is
\* {"sub":"\ud83d"}
CliInputs ==
    {
      \* '{"token":"e30.e30.s"}'
      <<123, 34, 116, 111, 107, 101, 110, 34, 58, 34, 101, 51, 48, 46, 101, 51, 48, 
       46, 115, 34, 125>>,
      \* '{"token":"e30.eyJzdWIiOiJcdWQ4M2QifQ.s"}'
      <<123, 34, 116, 111, 107, 101, 110, 34, 58, 34, 101, 51, 48, 46, 101, 121, 74, 
       122, 100, 87, 73, 105, 79, 105, 74, 99, 100, 87, 81, 52, 77, 50, 81, 105, 102, 
       81, 46, 115, 34, 125>>,
      \* '{"token":"a.b"}'
      <<123, 34, 116, 111, 107, 101, 110, 34, 58, 34, 97, 46, 98, 34, 125>>,
      \* '{"token":""}'
      <<123, 34, 116, 111, 107, 101, 110, 34, 58, 34, 34, 125>>,
      \* '{"token": 5}'
      <<123, 34, 116, 111, 107, 101, 110, 34, 58, 32, 53, 125>>,
      \* '{}'
      <<123, 125>>,
      \* '[1]'
      <<91, 49, 93>>,
      \* '12'
      <<49, 50>>,
      \* 'not json'
      <<110, 111, 116, 32, 106, 115, 111, 110>>,
      \* '{"token":'
      <<123, 34, 116, 111, 107, 101, 110, 34, 58>>,
      \* ''
      <<>>,
      \* '{"token":"e30.W10.s"}'
      <<123, 34, 116, 111, 107, 101, 110, 34, 58, 34, 101, 51, 48, 46, 87, 49, 48, 
       46, 115, 34, 125>>,
      \* '{"token":"e30.eyJleHAiOjB9.sig"}'
      <<123, 34, 116, 111, 107, 101, 110, 34, 58, 34, 101, 51, 48, 46, 101, 121, 74, 
       108, 101, 72, 65, 105, 79, 106, 66, 57, 46, 115, 105, 103, 34, 125>>,
      \* '{"token":"e30.e30.s","x":1}'
      <<123, 34, 116, 111, 107, 101, 110, 34, 58, 34, 101, 51, 48, 46, 101, 51, 48, 
       46, 115, 34, 44, 34, 120, 34, 58, 49, 125>>,
      \* '{"token":"e30.eyJleHAiOjE3MDAwMDAwMDB9.sig"}'
      <<123, 34, 116, 111, 107, 101, 110, 34, 58, 34, 101, 51, 48, 46, 101, 121, 74, 
       108, 101, 72, 65, 105, 79, 106, 69, 51, 77, 68, 65, 119, 77, 68, 65, 119, 77, 
       68, 66, 57, 46, 115, 105, 103, 34, 125>>
    }
\* the token arguments of the jwt command
CliTokens ==
    {
      \* 'e30.e30.s'
      <<101, 51, 48, 46, 101, 51, 48, 46, 115>>,
      \* 'e30.eyJzdWIiOiJcdWQ4M2QifQ.s'
      <<101, 51, 48, 46, 101, 121, 74, 122, 100, 87, 73, 105, 79, 105, 74, 99, 100, 
       87, 81, 52, 77, 50, 81, 105, 102, 81, 46, 115>>,
      \* 'a.b'
      <<97, 46, 98>>,
      \* ' '
      <<32>>,
      \* 'e30.W10.s'
      <<101, 51, 48, 46, 87, 49, 48, 46, 115>>,
      \* 'e30.eyJleHAiOjE3MDAwMDAwMDB9.sig'
      <<101, 51, 48, 46, 101, 121, 74, 108, 101, 72, 65, 105, 79, 106, 69, 51, 77, 
       68, 65, 119, 77, 68, 65, 119, 77, 68, 66, 57, 46, 115, 105, 103>>
    }
\* the timestamp arguments of the epoch command
CliTimestamps ==
    {
      \* '1577836800'
      <<49, 53, 55, 55, 56, 51, 54, 56, 48, 48>>,
      \* '1577836800000'
      <<49, 53, 55, 55, 56, 51, 54, 56, 48, 48, 48, 48, 48>>,
      \* 'abc'
      <<97, 98, 99>>,
      \* ''
      <<>>,
      \* '999999999999'
      <<57, 57, 57, 57, 57, 57, 57, 57, 57, 57, 57, 57>>
    }
\* the command lines
CliRequests ==
    {[command |-> "run", tool |-> tool, input |-> input] :
        tool \in {"jwt", "escape", "nope"}, input \in CliInputs}
    \cup {[command |-> "jwt", token |-> token] : token \in CliTokens}
    \cup {[command |-> "epoch", timestamp |-> JString(ts)] : ts \in CliTimestamps}
    \cup {[command |-> "epoch", timestamp |-> JConst("null")]}

(***************************************************************************)
(* The tools and their callers                                             *)
(***************************************************************************)
VARIABLES escape_call, escape_prev, color_call, color_prev,
          frame, instance, registry,
          registry_call, heap, registered,
          now, epoch_call, jwt_call, json_call, cli

escape_vars == <<escape_call, escape_prev>>
color_vars == <<color_call, color_prev>>
run_vars == <<frame, instance, registry>>
registry_vars == <<registry_call, heap, registered>>
epoch_vars == <<now, epoch_call>>
jwt_vars == <<jwt_call>>
json_vars == <<json_call>>
cli_vars == <<cli>>
vars == <<escape_call, escape_prev, color_call, color_prev, frame, instance, registry,
          registry_call, heap, registered, now, epoch_call, jwt_call,
          json_call, cli>>

\* the locals of a thread that is not inside run
IdleFrame ==
    [pc |-> "idle", tool |-> "", input_data |-> NoCall, validated_input |-> NoCall,
     result |-> NoCall, e |-> NoCall, ret |-> NoCall]

\* no tool has been called
InitCalls ==
    /\ escape_call = NoCall /\ escape_prev = NoCall
    /\ color_call = NoCall /\ color_prev = NoCall
    /\ frame = [t \in Threads |-> IdleFrame]
    /\ instance = ToolInstances
    /\ registry_call = NoCall
    /\ heap = <<>>
    /\ now = FirstTime
    /\ epoch_call = NoCall
    /\ jwt_call = NoCall
    /\ json_call = NoCall
    /\ cli = NoCall

\* the program after the import of the plugins
Init ==
    /\ InitCalls
    /\ registry = RegisteredTools
    /\ registered = RegisteredTools

EscapeFormats == {"html", "json", "xml", "javascript"}

\* a request to escape a text
Escape ==
    /\ escape_call = NoCall
    /\ \E text \in EscapeTexts, fmt \in EscapeFormats :
          escape_call' = escape_execute(text, "escape", fmt)
    /\ escape_prev' = NoCall
    /\ UNCHANGED <<color_vars, run_vars, registry_vars, epoch_vars, jwt_vars, json_vars, cli_vars>>

\* a request to unescape a text
Unescape ==
    /\ escape_call = NoCall
    /\ \E text \in EscapeTexts, fmt \in EscapeFormats :
          escape_call' = escape_execute(text, "unescape", fmt)
    /\ escape_prev' = NoCall
    /\ UNCHANGED <<color_vars, run_vars, registry_vars, epoch_vars, jwt_vars, json_vars, cli_vars>>

\* a request whose operation or format is not spelt in lower case, or is
\* not one the tool knows
EscapeOther ==
    /\ escape_call = NoCall
    /\ \E text \in TokenTexts(1), req \in RejectedRequests \cup MixedCaseRequests :
          escape_call' = escape_execute(text, req[1], req[2])
    /\ escape_prev' = NoCall
    /\ UNCHANGED <<color_vars, run_vars, registry_vars, epoch_vars, jwt_vars, json_vars, cli_vars>>

\* the caller sends the escaped text back to be unescaped in the same format
UnescapeOutput ==
    /\ escape_call.status = "ok"
    /\ escape_call.operation = "escape"
    /\ escape_prev = NoCall
    /\ escape_prev' = escape_call
    /\ escape_call' = escape_execute(escape_call.output_text, "unescape",
                                     escape_call.format)
    /\ UNCHANGED <<color_vars, run_vars, registry_vars, epoch_vars, jwt_vars, json_vars, cli_vars>>

EscapeNext == Escape \/ Unescape \/ EscapeOther \/ UnescapeOutput

SpecEscape == Init /\ [][EscapeNext]_vars

\* a request to convert a color
Convert ==
    /\ color_call = NoCall
    /\ \E input \in ColorInputs : color_call' = color_run(input)
    /\ color_prev' = NoCall
    /\ UNCHANGED <<escape_vars, run_vars, registry_vars, epoch_vars, jwt_vars, json_vars, cli_vars>>

\* the caller converts the hex text of the result
ConvertHexOutput ==
    /\ color_call.status = "ok"
    /\ color_prev = NoCall
    /\ color_prev' = color_call
    /\ color_call' = color_run(color_call.hex)
    /\ UNCHANGED <<escape_vars, run_vars, registry_vars, epoch_vars, jwt_vars, json_vars, cli_vars>>

\* the caller converts the css_hsl text of the result
ConvertCssHslOutput ==
    /\ color_call.status = "ok"
    /\ color_prev = NoCall
    /\ color_prev' = color_call
    /\ color_call' = color_run(color_call.css_hsl)
    /\ UNCHANGED <<escape_vars, run_vars, registry_vars, epoch_vars, jwt_vars, json_vars, cli_vars>>

\* the caller converts the css_rgb text of the result
ConvertCssRgbOutput ==
    /\ color_call.status = "ok"
    /\ color_prev = NoCall
    /\ color_prev' = color_call
    /\ color_call' = color_run(color_call.css_rgb)
    /\ UNCHANGED <<escape_vars, run_vars, registry_vars, epoch_vars, jwt_vars, json_vars, cli_vars>>

ColorNext == Convert \/ ConvertHexOutput \/ ConvertCssHslOutput \/ ConvertCssRgbOutput

SpecColor == Init /\ [][ColorNext]_vars

(***************************************************************************)
(* Threads calling run on the shared tool instances                        *)
(***************************************************************************)
\* an assignment to an attribute of the tool instance, which every call on
\* that instance reads
StoreShared(fr, t, name, value) ==
    [u \in Threads |-> IF fr[u].tool = fr[t].tool
                       THEN [fr[u] EXCEPT ![name] = value] ELSE fr[u]]
\* an assignment to a local name of the call of thread t
StoreLocal(fr, t, name, value) == [fr EXCEPT ![t][name] = value]
\* name = value and on to the next statement, or, when the right-hand side
\* raised, on to the except clause with the exception bound to e
AssignOrRaise(fr, t, name, value, next) ==
    IF value.status = "ok"
    THEN [StoreLocal(fr, t, name, value) EXCEPT ![t].pc = next]
    ELSE [StoreLocal(fr, t, "e", value) EXCEPT ![t].pc = "except"]

\* thread t calls tool.run(input_data) on the instance of the tool
RunCall(t) ==
    /\ frame[t].pc = "idle"
    /\ \E req \in RunRequests :
          frame' = [frame EXCEPT ![t] =
                      [pc |-> "validate", tool |-> req.tool,
                       input_data |-> req.input_data,
                       validated_input |-> NoCall, result |-> NoCall,
                       e |-> NoCall, ret |-> NoCall]]
    /\ UNCHANGED <<instance, registry, escape_vars, color_vars, registry_vars, epoch_vars, jwt_vars, json_vars, cli_vars>>

\* validated_input = self.validate_input(input_data)
RunValidate(t) ==
    /\ frame[t].pc = "validate"
    /\ frame' = AssignOrRaise(frame, t, "validated_input",
                              validate_input(frame[t].tool, frame[t].input_data),
                              "execute")
    /\ UNCHANGED <<instance, registry, escape_vars, color_vars, registry_vars, epoch_vars, jwt_vars, json_vars, cli_vars>>

\* result = self.execute(validated_input)
RunExecute(t) ==
    /\ frame[t].pc = "execute"
    /\ frame' = AssignOrRaise(frame, t, "result",
                              execute(frame[t].tool, frame[t].validated_input),
                              "format")
    /\ UNCHANGED <<instance, registry, escape_vars, color_vars, registry_vars, epoch_vars, jwt_vars, json_vars, cli_vars>>

\* return self.format_output(result)
RunFormat(t) ==
    /\ frame[t].pc = "format"
    /\ frame' = [StoreLocal(frame, t, "ret", format_output(frame[t].result))
                    EXCEPT ![t].pc = "return"]
    /\ UNCHANGED <<instance, registry, escape_vars, color_vars, registry_vars, epoch_vars, jwt_vars, json_vars, cli_vars>>

\* except Exception as e: return {error, type, tool}
RunExcept(t) ==
    /\ frame[t].pc = "except"
    /\ frame' = [StoreLocal(frame, t, "ret",
                            ErrorEnvelope(frame[t].e, instance[frame[t].tool]))
                    EXCEPT ![t].pc = "return"]
    /\ UNCHANGED <<instance, registry, escape_vars, color_vars, registry_vars, epoch_vars, jwt_vars, json_vars, cli_vars>>

\* the caller takes the returned dictionary; the thread may call again
RunReturn(t) ==
    /\ frame[t].pc = "return"
    /\ frame' = [frame EXCEPT ![t] = IdleFrame]
    /\ UNCHANGED <<instance, registry, escape_vars, color_vars, registry_vars, epoch_vars, jwt_vars, json_vars, cli_vars>>

RunNext ==
    \E t \in Threads :
        \/ RunCall(t)
        \/ RunValidate(t)
        \/ RunExecute(t)
        \/ RunFormat(t)
        \/ RunExcept(t)
        \/ RunReturn(t)

SpecConcurrent == Init /\ [][RunNext]_vars

(***************************************************************************)
(* Callers of the registry                                                 *)
(***************************************************************************)
\* a new ToolRegistry: _tools is empty
InitRegistry ==
    /\ InitCalls
    /\ registry = <<>>
    /\ registered = <<>>

\* the number of the next call
NextCall == IF registry_call = NoCall THEN 1 ELSE registry_call.call + 1

\* registry.register_tool(cls, name); the caller notes what it registered
\* when no exception came back
RegisterTool ==
    /\ NextCall <= MaxCalls
    /\ \E cls \in DOMAIN ToolClasses, name \in NameArguments :
          /\ registry' = register_tool(registry, cls, name).tools
          /\ registry_call' =
                [op |-> "register_tool", call |-> NextCall, cls |-> cls,
                 name |-> register_name(cls, name),
                 status |-> register_tool(registry, cls, name).status,
                 type |-> register_tool(registry, cls, name).type]
          /\ registered' =
                IF register_tool(registry, cls, name).status = "ok"
                THEN Append(registered, [name |-> register_name(cls, name), cls |-> cls])
                ELSE registered
    /\ UNCHANGED <<heap, escape_vars, color_vars, frame, instance, epoch_vars, jwt_vars, json_vars, cli_vars>>

\* registry.get_tool(name)
GetTool ==
    /\ NextCall <= MaxCalls
    /\ \E name \in ToolNames :
          IF IsRegistered(registry, name)
          THEN /\ heap' = new_instance(heap, ClassOf(registry, name), NextCall)
               /\ registry_call' =
                     [op |-> "get_tool", call |-> NextCall, name |-> name,
                      status |-> "ok", type |-> "None",
                      ret |-> returned_instance(heap', ClassOf(registry, name))]
          ELSE /\ heap' = heap
               /\ registry_call' =
                     [op |-> "get_tool", call |-> NextCall, name |-> name,
                      status |-> "error", type |-> "ValueError"]
    /\ UNCHANGED <<registry, registered, escape_vars, color_vars, frame, instance, epoch_vars, jwt_vars, json_vars, cli_vars>>

\* registry.list_tools()
ListTools ==
    /\ NextCall <= MaxCalls
    /\ registry_call' =
          [op |-> "list_tools", call |-> NextCall, status |-> "ok", type |-> "None",
           names |-> [i \in 1..Len(registry) |-> registry[i].name]]
    /\ UNCHANGED <<registry, registered, heap, escape_vars, color_vars, frame, instance, epoch_vars, jwt_vars, json_vars, cli_vars>>

RegistryNext == RegisterTool \/ GetTool \/ ListTools

SpecRegistry == InitRegistry /\ [][RegistryNext]_vars

(***************************************************************************)
(* Requests to the epoch tool                                              *)
(***************************************************************************)
\* time passes
Tick ==
    /\ \E t \in ClockTimes : t > now /\ now' = t
    /\ UNCHANGED <<epoch_call, escape_vars, color_vars, run_vars, registry_vars, jwt_vars, json_vars, cli_vars>>

\* a request to the epoch tool
EpochCall ==
    /\ \E request \in EpochRequests, range_error \in RangeErrors :
          epoch_call' = [status |-> "done"] @@ epoch_run(request, now, range_error)
    /\ UNCHANGED <<now, escape_vars, color_vars, run_vars, registry_vars, jwt_vars, json_vars, cli_vars>>

EpochNext == Tick \/ EpochCall

SpecEpoch == Init /\ [][EpochNext]_vars

(***************************************************************************)
(* Requests to the JWT tool                                                *)
(***************************************************************************)
\* a request to decode a token
JwtCall ==
    /\ \E token \in JwtTokens :
          jwt_call' = [status |-> "done", token |-> token, at |-> now,
                       out |-> jwt_run(token, now)]
    /\ UNCHANGED <<epoch_vars, escape_vars, color_vars, run_vars, registry_vars, json_vars, cli_vars>>

JwtNext == Tick \/ JwtCall

SpecJwt == Init /\ [][JwtNext]_vars

(***************************************************************************)
(* Requests to the JSON tool                                               *)
(***************************************************************************)
\* a request to format or minify a text
JsonCall ==
    /\ \E text \in JsonTexts, minify \in BOOLEAN, auto_unescape \in BOOLEAN :
          json_call' = [status |-> "done", text |-> text, minify |-> minify,
                        auto_unescape |-> auto_unescape,
                        out |-> json_run(text, minify, auto_unescape)]
    /\ UNCHANGED <<epoch_vars, jwt_vars, escape_vars, color_vars, run_vars, registry_vars, cli_vars>>

JsonNext == JsonCall

SpecJson == Init /\ [][JsonNext]_vars

(***************************************************************************)
(* Runs of the command line                                                *)
(***************************************************************************)
\* one run of devtools.py
CliMain ==
    /\ \E argv \in CliRequests, range_error \in RangeErrors :
          cli' = [status |-> "done", argv |-> argv, at |-> now]
                 @@ main(argv, now, range_error)
    /\ UNCHANGED <<epoch_vars, jwt_vars, json_vars, escape_vars, color_vars, run_vars,
                   registry_vars>>

CliNext == Tick \/ CliMain

SpecCli == Init /\ [][CliNext]_vars

(***************************************************************************)
(* Properties of the escape codec                                          *)
(***************************************************************************)
IsPrintableAscii(s) == \A i \in 1..Len(s) : s[i] >= 32 /\ s[i] <= 126
IsScalarText(s) ==
    \A i \in 1..Len(s) : s[i] <= 1114111 /\ ~(s[i] >= 55296 /\ s[i] <= 57343)

\* the last call unescaped, in format fmt, the output of escaping a text
RoundTripIn(fmt) ==
    /\ escape_prev.status = "ok"
    /\ escape_prev.operation = "escape"
    /\ escape_prev.format = fmt
    /\ escape_call.input_text = escape_prev.output_text
\* ... and returned the text that was escaped
RoundTripExact ==
    /\ escape_call.status = "ok"
    /\ escape_call.output_text = escape_prev.input_text

\* C1: JavaScript unescape(escape(s)) = s for every printable-ASCII text s,
\* also when a backslash in s is followed by n, r, t, b, f, x, u, a quote
\* or a backslash.
C1_JsRoundTrip ==
    (RoundTripIn("javascript") /\ IsPrintableAscii(escape_prev.input_text))
        => RoundTripExact

\* C2: JSON unescape(escape(s)) = s for every text s of Unicode scalar
\* values, whatever mix of ASCII, non-ASCII, non-BMP, quote, backslash and
\* control characters it holds.
C2_JsonRoundTrip ==
    (RoundTripIn("json") /\ IsScalarText(escape_prev.input_text))
        => RoundTripExact

\* C3: HTML and XML unescape(escape(s)) = s for every text s, entity-like
\* text such as '&amp;' or '&lt;' included.
C3_HtmlXmlRoundTrip ==
    (RoundTripIn("html") \/ RoundTripIn("xml")) => RoundTripExact

\* the text '&lt;' was escaped as HTML to '&amp;lt;' and came back
C3_Witness ==
    /\ RoundTripIn("html")
    /\ escape_prev.input_text = ENT.lt
    /\ escape_prev.output_text = ENT.amp \o <<108, 116, 59>>
    /\ escape_call.output_text = ENT.lt

\* the \uHHHH\uLLLL text out is the surrogate pair of the code point cp
IsSurrogatePairOf(out, cp) ==
    /\ Len(out) = 12
    /\ SubSeq(out, 1, 2) = <<CH.backslash, CH.u>>
    /\ SubSeq(out, 7, 8) = <<CH.backslash, CH.u>>
    /\ AllHex(SubSeq(out, 3, 6)) /\ AllHex(SubSeq(out, 9, 12))
    /\ LET H == HexToInt(SubSeq(out, 3, 6))
           L == HexToInt(SubSeq(out, 9, 12))
       IN  /\ H >= 55296 /\ H <= 56319
           /\ L >= 56320 /\ L <= 57343
           /\ H = 55296 + ((cp - 65536) \div 1024)
           /\ L = 56320 + ((cp - 65536) % 1024)
           /\ ((H - 55296) * 1024) + (L - 56320) + 65536 = cp

IsOneNonBmp(text) == Len(text) = 1 /\ text[1] >= 65536 /\ text[1] <= 1114111

\* C4: JavaScript escape of one code point cp in [0x10000, 0x10FFFF] is
\* exactly one pair \uHHHH\uLLLL with H = 0xD800 + ((cp - 0x10000) >> 10)
\* and L = 0xDC00 + ((cp - 0x10000) & 0x3FF), each in its surrogate range,
\* and JavaScript unescape of that pair is the one code point cp.
C4_SurrogatePair ==
    /\ (/\ escape_call.status = "ok"
        /\ escape_call.operation = "escape"
        /\ escape_call.format = "javascript"
        /\ IsOneNonBmp(escape_call.input_text))
         => IsSurrogatePairOf(escape_call.output_text, escape_call.input_text[1])
    /\ (RoundTripIn("javascript") /\ IsOneNonBmp(escape_prev.input_text))
         => /\ IsSurrogatePairOf(escape_call.input_text, escape_prev.input_text[1])
            /\ escape_call.status = "ok"
            /\ escape_call.output_text = escape_prev.input_text

\* U+1F600 was escaped to \ud83d\ude00 and unescaped to U+1F600
C4_Witness ==
    /\ RoundTripIn("javascript")
    /\ escape_prev.input_text = <<128512>>
    /\ escape_prev.output_text = <<92, 117, 100, 56, 51, 100, 92, 117, 100, 101, 48, 48>>
    /\ escape_call.output_text = <<128512>>

\* C5: for every text, each of the four formats and both directions, the
\* transform returns a string and never an error.
C5_NeverFails ==
    (/\ escape_call.status # "none"
     /\ escape_call.operation \in {"escape", "unescape"}
     /\ escape_call.format \in EscapeFormats)
        => escape_call.status = "ok"

(***************************************************************************)
(* Properties of the color converter                                       *)
(***************************************************************************)
InChannelRange(v) == v >= 0 /\ v <= 255

\* the spellings of rgb(r, g, b) with the lower-case word and a closing
\* parenthesis, for component texts r, g, b
RgbFormsOf(r, g, b) ==
    { RgbText(<<114, 103, 98>>, open, sep, close, r, g, b) :
        open \in {<<40>>, <<32, 40, 32>>},
        sep \in {<<44>>, <<44, 32>>, <<32, 44, 32>>},
        close \in {<<41>>, <<32, 41>>} }

\* C6: an rgb(...) input is accepted exactly when its three components are
\* integers in [0,255]; with a component above 255 the conversion fails
\* with the invalid-color error and returns no result: nothing is clamped.
C6_RgbRange ==
    /\ \A r \in RgbSample, g \in RgbSample, b \in RgbSample :
          color_call.status # "none"
          /\ color_call.input_color \in RgbFormsOf(DecStr(r), DecStr(g), DecStr(b))
          => IF InChannelRange(r) /\ InChannelRange(g) /\ InChannelRange(b)
             THEN /\ color_call.status = "ok"
                  /\ color_call.input_format = "rgb"
                  /\ color_call.rgb = [r |-> r, g |-> g, b |-> b]
             ELSE /\ color_call.status = "error"
                  /\ color_call.type = "ValueError"
                  /\ color_call.error = "Invalid color format: RGB values must be between 0 and 255"
    /\ \A r \in {<<45, 49>>, <<49, 46, 53>>} :
          color_call.status # "none"
          /\ color_call.input_color \in RgbFormsOf(r, <<50>>, <<51>>)
          => color_call.status = "error" /\ color_call.type = "ValueError"
    /\ color_call.status # "none"
       /\ color_call.input_color \in RgbFormsOf(<<48, 48, 49>>, <<50>>, <<51>>)
       => color_call.status = "ok" /\ color_call.rgb = [r |-> 1, g |-> 2, b |-> 3]

\* rgb(0, 256, 255) was refused
C6_Witness ==
    /\ color_call.status = "error"
    /\ color_call.input_color = <<114, 103, 98, 40, 48, 44, 32, 50, 53, 54, 44, 32, 50, 53, 53, 41>>
    /\ color_call.error = "Invalid color format: RGB values must be between 0 and 255"

IsHexInput(color) == ~StartsWith(color, <<114, 103, 98>>) /\ ~StartsWith(color, <<104, 115, 108>>)
IsHexBody(body) == Len(body) \in {3, 6} /\ AllHex(body)

\* C7: a hex input, with or without '#', is accepted only if what follows
\* the '#' is exactly 3 or exactly 6 hexadecimal digits; anything else
\* fails with the invalid-color error.
C7_HexStrict ==
    (/\ color_call.status # "none"
     /\ IsHexInput(color_call.input_color)
     /\ ~IsHexBody(LStrip(color_call.input_color, {CH.hash})))
        => color_call.status = "error" /\ color_call.type = "ValueError"

\* C8: every successful conversion returns R, G, B in [0,255], H in [0,360)
\* and S, L in [0,100].
C8_OutputRanges ==
    color_call.status = "ok"
        => /\ InChannelRange(color_call.rgb.r)
           /\ InChannelRange(color_call.rgb.g)
           /\ InChannelRange(color_call.rgb.b)
           /\ color_call.hsl.h >= 0 /\ color_call.hsl.h < 360
           /\ color_call.hsl.s >= 0 /\ color_call.hsl.s <= 100
           /\ color_call.hsl.l >= 0 /\ color_call.hsl.l <= 100

Abs(n) == IF n < 0 THEN -n ELSE n
Is6DigitHex(color) ==
    LET body == IF StartsWith(color, <<CH.hash>>) THEN Tail(color) ELSE color
    IN  Len(body) = 6 /\ AllHex(body)
\* the channel of a 6-digit hex text, k = 0, 1, 2
HexChannel(color, k) ==
    LET body == IF StartsWith(color, <<CH.hash>>) THEN Tail(color) ELSE color
    IN  HexToInt(SubSeq(body, 2 * k + 1, 2 * k + 2))

\* the last call converted the css_hsl text of the conversion of a 6-digit hex
HexHslRoundTrip ==
    /\ color_prev.status = "ok"
    /\ Is6DigitHex(color_prev.input_color)
    /\ color_call.input_color = color_prev.css_hsl
\* ... and its hex is within tol of the first hex in every channel
RoundTripWithin(tol) ==
    /\ color_call.status = "ok"
    /\ Is6DigitHex(color_call.hex)
    /\ \A k \in 0..2 :
          Abs(HexChannel(color_call.hex, k) - HexChannel(color_prev.input_color, k)) <= tol

\* C9 as stated: HEX -> RGB -> HSL -> RGB -> HEX returns every channel of a
\* 6-digit hex within 1 of the original.
C9_RoundTripWithin1 == HexHslRoundTrip => RoundTripWithin(1)

\* C9 amended: HEX -> RGB -> HSL -> RGB -> HEX returns every channel of a
\* 6-digit hex within 10 of the original.
C9_RoundTripWithin10 == HexHslRoundTrip => RoundTripWithin(10)

\* #05f4f0 went to hsl(178, 95%, 48%) and came back as #06eee6, 10 away
C9_Witness ==
    /\ HexHslRoundTrip
    /\ color_prev.input_color = <<35, 48, 53, 102, 52, 102, 48>>
    /\ color_call.hex = <<35, 48, 54, 101, 101, 101, 54>>

\* C10: converting the hex of a successful conversion succeeds and returns
\* the same hex, rgb and hsl.
C10_HexFixedPoint ==
    (color_prev.status = "ok" /\ color_call.input_color = color_prev.hex)
        => /\ color_call.status = "ok"
           /\ color_call.hex = color_prev.hex
           /\ color_call.rgb = color_prev.rgb
           /\ color_call.hsl = color_prev.hsl

\* the text with its ASCII letters in lower case
LowerText(s) == [i \in 1..Len(s) |-> Lower(s[i])]
\* color is a spelling, in some letter case, of a lower-case rgb(...) or
\* hsl(...) text that converts
IsSpellingOfValid(color, word) ==
    /\ color # LowerText(color)
    /\ StartsWith(LowerText(color), word)
    /\ SubSeq(color, 4, Len(color)) = SubSeq(LowerText(color), 4, Len(color))
    /\ color_run(LowerText(color)).status = "ok"

\* C11: an rgb(...) or hsl(...) input whose prefix is written in another
\* letter case is detected as rgb or hsl and converts to the same result as
\* its lower-case spelling.
C11_PrefixAnyCase ==
    \A fmt \in {"rgb", "hsl"} :
        (/\ color_call.status # "none"
         /\ IsSpellingOfValid(color_call.input_color,
                              IF fmt = "rgb" THEN <<114, 103, 98>> ELSE <<104, 115, 108>>))
            => /\ color_call.status = "ok"
               /\ color_call.input_format = fmt
               /\ color_call.hex = color_run(LowerText(color_call.input_color)).hex
               /\ color_call.rgb = color_run(LowerText(color_call.input_color)).rgb
               /\ color_call.hsl = color_run(LowerText(color_call.input_color)).hsl

\* text is two lower-case hexadecimal digits that spell v
IsTwoDigitLowerHex(text, v) ==
    /\ Len(text) = 2
    /\ \A i \in 1..2 : IsDigit(text[i]) \/ (text[i] >= 97 /\ text[i] <= 102)
    /\ HexToInt(text) = v

\* C12: every successful conversion returns hex as '#' and the two-digit
\* lower-case hex of R, G and B, css_rgb as 'rgb(R, G, B)' and css_hsl as
\* 'hsl(H, S%, L%)' of the rgb and hsl fields, and an input_format among
\* hex, rgb and hsl that names the notation of the input.
C12_Representations ==
    color_call.status = "ok"
        => /\ Len(color_call.hex) = 7
           /\ color_call.hex[1] = CH.hash
           /\ IsTwoDigitLowerHex(SubSeq(color_call.hex, 2, 3), color_call.rgb.r)
           /\ IsTwoDigitLowerHex(SubSeq(color_call.hex, 4, 5), color_call.rgb.g)
           /\ IsTwoDigitLowerHex(SubSeq(color_call.hex, 6, 7), color_call.rgb.b)
           /\ color_call.css_rgb
                = <<114, 103, 98, 40>> \o DecStr(color_call.rgb.r) \o <<44, 32>>
                  \o DecStr(color_call.rgb.g) \o <<44, 32>>
                  \o DecStr(color_call.rgb.b) \o <<41>>
           /\ color_call.css_hsl
                = <<104, 115, 108, 40>> \o DecStr(color_call.hsl.h) \o <<44, 32>>
                  \o DecStr(color_call.hsl.s) \o <<37, 44, 32>>
                  \o DecStr(color_call.hsl.l) \o <<37, 41>>
           /\ color_call.input_format \in {"hex", "rgb", "hsl"}
           /\ color_call.input_format = "rgb"
                <=> StartsWith(color_call.input_color, <<114, 103, 98>>)
           /\ color_call.input_format = "hsl"
                <=> StartsWith(color_call.input_color, <<104, 115, 108>>)

(***************************************************************************)
(* Properties of BaseTool.run                                              *)
(***************************************************************************)
\* C13: under every interleaving of threads that call run on the same tool
\* instances, a call returns what run returns for its input when it is
\* called alone, and no step of a call changes a tool instance or the
\* registry
C13_CallsIndependent ==
    /\ instance = ToolInstances
    /\ registry = RegisteredTools
    /\ \A t \in Threads :
          frame[t].pc = "return" =>
              frame[t].ret = run(ToolInstances[frame[t].tool], frame[t].tool,
                                 frame[t].input_data)
\* one thread is about to return from a tool while another thread is in the
\* middle of a call of the same tool with another input
C13_Witness ==
    \E t, u \in Threads :
        /\ t # u
        /\ frame[t].pc = "return"
        /\ frame[u].pc \in {"execute", "format", "except"}
        /\ frame[t].tool = frame[u].tool
        /\ frame[t].input_data # frame[u].input_data

\* what run may return for the outcome r of validate_input and execute when
\* the tool is configured under the given name
IsReturnOf(ret, r, name) ==
    IF r.status # "ok"
    THEN /\ DOMAIN ret = {"error", "type", "tool"}
         /\ ret.error = r.error
         /\ ret.type = r.type
         /\ ret.tool = name
    ELSE /\ "error" \notin DOMAIN ret
         /\ ret = format_output(r)
\* C14: run never raises: a call is always at one of the statements of run,
\* an exception of validate_input or execute is bound in the except clause,
\* and what the call returns is the formatted output, without an error key,
\* or, after an exception, the dictionary with exactly the keys error (the
\* message), type (the class name) and tool (the configured name)
C14_RunNeverRaises ==
    \A t \in Threads :
        /\ frame[t].pc \in {"idle", "validate", "execute", "format", "except", "return"}
        /\ frame[t].pc = "except" => frame[t].e.status = "error"
        /\ frame[t].pc = "return" =>
              IsReturnOf(frame[t].ret,
                         validate_and_execute(frame[t].tool,
                             validate_input(frame[t].tool, frame[t].input_data)),
                         frame[t].tool)
\* two calls have returned: one whose execute raised, with the error
\* dictionary, and one with the formatted output
C14_Witness ==
    \E t, u \in Threads :
        /\ frame[t].pc = "return" /\ frame[u].pc = "return"
        /\ "error" \in DOMAIN frame[t].ret
        /\ frame[t].ret.type \in {"ValueError", "UnicodeError"}
        /\ "error" \notin DOMAIN frame[u].ret

(***************************************************************************)
(* Properties of the XML, HTML and JavaScript codecs                       *)
(***************************************************************************)
RECURSIVE Concat(_)
Concat(parts) == IF parts = <<>> THEN <<>> ELSE Head(parts) \o Concat(Tail(parts))
\* the concatenation, in input order, of what F gives for each code point
EachCodePoint(s, F(_)) == Concat([i \in 1..Len(s) |-> F(s[i])])
\* &apos;
EntApos == <<38, 97, 112, 111, 115, 59>>
\* the XML-predefined entity of each of & < > ' ", any other character itself
XmlPredefined(c) ==
    IF c = CH.amp THEN ENT.amp
    ELSE IF c = CH.lt THEN ENT.lt
    ELSE IF c = CH.gt THEN ENT.gt
    ELSE IF c = CH.squote THEN EntApos
    ELSE IF c = CH.dquote THEN ENT.quot
    ELSE <<c>>
IsCall(operation, format) ==
    /\ escape_call.status = "ok"
    /\ escape_call.operation = operation
    /\ escape_call.format = format
\* C15: XML escape replaces every & < > ' " with its predefined entity
\* (&amp; &lt; &gt; &apos; &quot;) and leaves every other character unchanged
C15_XmlEscapeFive ==
    IsCall("escape", "xml") =>
        escape_call.output_text = EachCodePoint(escape_call.input_text, XmlPredefined)
\* the part of C15 the code has: & < > are replaced, and nothing but & < >
\* ' " is changed
C15_XmlEscapeThree ==
    IsCall("escape", "xml") =>
        escape_call.output_text =
            EachCodePoint(escape_call.input_text,
                          LAMBDA c : IF c \in {CH.squote, CH.dquote} THEN <<c>>
                                     ELSE XmlPredefined(c))

RECURSIVE DecodeEntities(_, _)
\* one pass from left to right that replaces each entity of the table by its
\* character and copies everything else
DecodeEntities(s, table) ==
    IF s = <<>> THEN <<>>
    ELSE IF \E c \in DOMAIN table : StartsWith(s, table[c])
         THEN LET c == CHOOSE c \in DOMAIN table : StartsWith(s, table[c])
              IN  <<c>> \o DecodeEntities(Drop(s, Len(table[c])), table)
    ELSE <<Head(s)>> \o DecodeEntities(Tail(s), table)
\* C16: XML unescape decodes each of &amp; &lt; &gt; &apos; &quot; to its
\* character in a single pass and leaves everything else, other named
\* entities included, unchanged
C16_XmlUnescapeFive ==
    IsCall("unescape", "xml") =>
        escape_call.output_text =
            DecodeEntities(escape_call.input_text,
                           [c \in {CH.amp, CH.lt, CH.gt, CH.squote, CH.dquote}
                              |-> XmlPredefined(c)])
\* the part of C16 the code has: &amp; &lt; &gt; are decoded in a single
\* pass and nothing else is changed
C16_XmlUnescapeThree ==
    IsCall("unescape", "xml") =>
        escape_call.output_text =
            DecodeEntities(escape_call.input_text,
                           [c \in {CH.amp, CH.lt, CH.gt} |-> XmlPredefined(c)])

\* the entity html.escape writes for each of & < > " ', any other character
\* itself
HtmlEntityOf(c) ==
    IF c = CH.amp THEN ENT.amp
    ELSE IF c = CH.lt THEN ENT.lt
    ELSE IF c = CH.gt THEN ENT.gt
    ELSE IF c = CH.dquote THEN ENT.quot
    ELSE IF c = CH.squote THEN ENT.x27
    ELSE <<c>>
\* C17: HTML escape replaces every & < > " ' of the input with an entity,
\* never escapes the & of an entity it wrote itself, and leaves every other
\* character unchanged; HTML unescape of the output returns the input
C17_HtmlEscape ==
    /\ IsCall("escape", "html") =>
          escape_call.output_text = EachCodePoint(escape_call.input_text, HtmlEntityOf)
    /\ (escape_prev.status = "ok" /\ escape_prev.format = "html") =>
          /\ escape_call.status = "ok"
          /\ escape_call.output_text = escape_prev.input_text
\* 'a < b & c' was escaped to 'a &lt; b &amp; c', which was unescaped to
\* 'a < b & c'
C17_Witness ==
    /\ escape_prev.status = "ok"
    /\ escape_prev.format = "html"
    /\ escape_prev.input_text = <<97, 32, 60, 32, 98, 32, 38, 32, 99>>
    /\ escape_prev.output_text =
           <<97, 32, 38, 108, 116, 59, 32, 98, 32, 38, 97, 109, 112, 59, 32, 99>>
    /\ escape_call.operation = "unescape"
    /\ escape_call.output_text = <<97, 32, 60, 32, 98, 32, 38, 32, 99>>

\* C18: JavaScript unescape decodes \xHH first, then surrogate pairs
\* \uHHHH\uHHHH, then the remaining \uHHHH, and the named two-character
\* escapes last
C18_JsUnescapeOrder ==
    IsCall("unescape", "javascript") =>
        escape_call.output_text =
            js_replace_named(repl_u(repl_surrogate(repl_x(escape_call.input_text))))

\* text is \u followed by four hex digits that spell cp
IsUnicodeEscapeOf(text, cp) ==
    /\ Len(text) = 6
    /\ text[1] = CH.backslash /\ text[2] = CH.u
    /\ AllHex(SubSeq(text, 3, 6))
    /\ HexToInt(SubSeq(text, 3, 6)) = cp
IsEscapeOfOne(lowest, highest) ==
    /\ IsCall("escape", "javascript")
    /\ Len(escape_call.input_text) = 1
    /\ escape_call.input_text[1] >= lowest
    /\ escape_call.input_text[1] <= highest
\* C19: JavaScript escape maps every code point from 0x7F to 0xFFFF, both
\* included, to one \uXXXX escape of four hex digits
C19_JsEscapeFrom7F ==
    IsEscapeOfOne(127, 65535) =>
        IsUnicodeEscapeOf(escape_call.output_text, escape_call.input_text[1])
\* the part of C19 the code has: the same for every code point from 0x80
C19_JsEscapeFrom80 ==
    IsEscapeOfOne(128, 65535) =>
        IsUnicodeEscapeOf(escape_call.output_text, escape_call.input_text[1])

\* what C20 states for a code point below 0x7F: the two-character escape of
\* " ' \ and of LF CR TAB BS FF, \u00XX for the other code points below
\* 0x20, the code point itself from 0x20 to 0x7E
JsEscapeOfAscii(c) ==
    CASE c = CH.dquote -> <<CH.backslash, CH.dquote>>
      [] c = CH.squote -> <<CH.backslash, CH.squote>>
      [] c = CH.backslash -> <<CH.backslash, CH.backslash>>
      [] c = CH.lf -> <<CH.backslash, CH.n>>
      [] c = CH.cr -> <<CH.backslash, CH.r>>
      [] c = CH.tab -> <<CH.backslash, CH.t>>
      [] c = CH.bs -> <<CH.backslash, CH.b>>
      [] c = CH.ff -> <<CH.backslash, CH.f>>
      [] OTHER -> IF c < 32
                  THEN <<CH.backslash, CH.u, CH.zero, CH.zero>>
                       \o <<HexChar(c \div 16), HexChar(c % 16)>>
                  ELSE <<c>>
\* C20: JavaScript escape works one code point at a time: " ' \ LF CR TAB
\* BS FF become their two-character escapes, every other code point below
\* 0x20 becomes \u00XX, every other code point from 0x20 to 0x7E stays, and
\* the output is the concatenation, in input order, of the results for the
\* single code points
C20_JsEscapePerCodePoint ==
    IsCall("escape", "javascript") =>
        escape_call.output_text =
            EachCodePoint(escape_call.input_text,
                          LAMBDA c : IF c < 127 THEN JsEscapeOfAscii(c)
                                     ELSE js_escape(<<c>>))
\* the text U+0001 " was escaped to \u0001\"
C20_Witness ==
    /\ IsCall("escape", "javascript")
    /\ escape_call.input_text = <<1, 34>>
    /\ escape_call.output_text = <<92, 117, 48, 48, 48, 49, 92, 34>>

\* a backslash followed by one of n r t b f " ' \ occurs in s
HasNamedEscape(s) ==
    \E i \in 1..(Len(s) - 1) :
        /\ s[i] = CH.backslash
        /\ s[i + 1] \in {CH.n, CH.r, CH.t, CH.b, CH.f, CH.dquote, CH.squote,
                         CH.backslash}
RECURSIVE DecodeNumericEscapes(_)
\* one pass from left to right over the input: \xHH gives the code point HH,
\* a surrogate pair \uHHHH\uHHHH its code point, any other \uHHHH the code
\* point HHHH, and every other character is copied
DecodeNumericEscapes(s) ==
    IF s = <<>> THEN <<>>
    ELSE IF Len(s) >= 4 /\ s[1] = CH.backslash /\ s[2] = CH.x
            /\ AllHex(SubSeq(s, 3, 4))
         THEN <<HexToInt(SubSeq(s, 3, 4))>> \o DecodeNumericEscapes(Drop(s, 4))
    ELSE IF IsHighEscape(s) /\ IsLowEscape(Drop(s, 6))
         THEN <<CombineSurrogates(HexToInt(SubSeq(s, 3, 6)),
                                  HexToInt(SubSeq(s, 9, 12)))>>
              \o DecodeNumericEscapes(Drop(s, 12))
    ELSE IF Len(s) >= 6 /\ s[1] = CH.backslash /\ s[2] = CH.u
            /\ AllHex(SubSeq(s, 3, 6))
         THEN <<HexToInt(SubSeq(s, 3, 6))>> \o DecodeNumericEscapes(Drop(s, 6))
    ELSE <<Head(s)>> \o DecodeNumericEscapes(Tail(s))
\* C21: JavaScript unescape of a text without named escapes decodes every
\* \xHH and every standalone \uHHHH of the text, in either letter case, to
\* its code point and leaves the text that is not part of an escape
\* sequence unchanged
C21_JsUnescapeNumeric ==
    (IsCall("unescape", "javascript") /\ ~HasNamedEscape(escape_call.input_text)) =>
        escape_call.output_text = DecodeNumericEscapes(escape_call.input_text)
\* the part of C21 the code has: the same for the texts whose decoded form
\* holds no backslash
C21_NoDecodedBackslash ==
    (/\ IsCall("unescape", "javascript")
     /\ ~HasNamedEscape(escape_call.input_text)
     /\ \A i \in 1..Len(DecodeNumericEscapes(escape_call.input_text)) :
           DecodeNumericEscapes(escape_call.input_text)[i] # CH.backslash)
    => escape_call.output_text = DecodeNumericEscapes(escape_call.input_text)

(***************************************************************************)
(* Properties of the color conversions                                     *)
(***************************************************************************)
Max3(a, b, c) == IF a >= b /\ a >= c THEN a ELSE IF b >= c THEN b ELSE c
Min3(a, b, c) == IF a <= b /\ a <= c THEN a ELSE IF b <= c THEN b ELSE c
\* six times d times the hue, as a fraction of the circle, of a color that
\* is not gray: (G-B) (+6d if G < B) when R is the maximum, (B-R) + 2d when
\* G is, (R-G) + 4d when B is
HueSixths(r, g, b, d) ==
    IF Max3(r, g, b) = r THEN (g - b) + (IF g < b THEN 6 * d ELSE 0)
    ELSE IF Max3(r, g, b) = g THEN (b - r) + 2 * d
    ELSE (r - g) + 4 * d
\* H, S and L of C22 in exact arithmetic: all quotients are of natural
\* numbers, so truncation is \div
ExactHsl(r, g, b) ==
    LET max == Max3(r, g, b)
        min == Min3(r, g, b)
        d == max - min
    IN  [h |-> IF d = 0 THEN 0 ELSE (60 * HueSixths(r, g, b, d)) \div d,
         s |-> IF d = 0 THEN 0
               ELSE IF max + min > 255 THEN (100 * d) \div (510 - max - min)
               ELSE (100 * d) \div (max + min),
         l |-> (100 * (max + min)) \div 510]
IsConvertedRgb ==
    /\ color_call.status = "ok"
    /\ \A c \in {color_call.rgb.r, color_call.rgb.g, color_call.rgb.b} :
          InChannelRange(c)
\* C22: for R, G, B in 0..255 the returned H, S, L are the truncated values
\* of the formulas: L = trunc(100*(max+min)/510), H = S = 0 for a gray,
\* else S = trunc(100*d/(510-max-min)) or trunc(100*d/(max+min)) and
\* H = trunc(60*h)
C22_RgbToHslExact ==
    IsConvertedRgb =>
        color_call.hsl = ExactHsl(color_call.rgb.r, color_call.rgb.g, color_call.rgb.b)
\* what the code has: each of H, S, L is the truncated value or one less
C22_RgbToHslWithin1 ==
    IsConvertedRgb =>
        LET e == ExactHsl(color_call.rgb.r, color_call.rgb.g, color_call.rgb.b)
        IN  /\ color_call.hsl.h \in {e.h, e.h - 1}
            /\ color_call.hsl.s \in {e.s, e.s - 1}
            /\ color_call.hsl.l \in {e.l, e.l - 1}

\* n / d truncated towards zero, for d > 0
TruncDiv(n, d) == IF n >= 0 THEN n \div d ELSE -((-n) \div d)
\* 600000 times hue(p, q, t) for t = T/360 wrapped into [0, 1), with P and Q
\* standing for 10000 p and 10000 q
ExactHue(P, Q, T) ==
    IF T % 360 < 60 THEN 60 * P + (Q - P) * (T % 360)
    ELSE IF T % 360 < 180 THEN 60 * Q
    ELSE IF T % 360 < 240 THEN 60 * P + (Q - P) * (240 - (T % 360))
    ELSE 60 * P
\* 10000 q for s = S/100 and l = L/100
ExactQ(S, L) == IF L < 50 THEN L * (100 + S) ELSE 100 * L + 100 * S - L * S
\* R, G, B of C23 in exact arithmetic for hsl(h, S%, L%)
ExactRgb(h, S, L) ==
    IF S = 0
    THEN [r |-> TruncDiv(255 * L, 100), g |-> TruncDiv(255 * L, 100),
          b |-> TruncDiv(255 * L, 100)]
    ELSE LET Q == ExactQ(S, L)
             P == 200 * L - Q
         IN  [r |-> TruncDiv(255 * ExactHue(P, Q, h + 120), 600000),
              g |-> TruncDiv(255 * ExactHue(P, Q, h), 600000),
              b |-> TruncDiv(255 * ExactHue(P, Q, h + 240), 600000)]
\* the text hsl(h, s%, l%)
HslText(h, s, l) ==
    <<104, 115, 108, 40>> \o DecStr(h) \o <<44, 32>> \o DecStr(s)
    \o <<37, 44, 32>> \o DecStr(l) \o <<37, 41>>
\* the call converted hsl(h, s%, l%) for sampled h and for s, l among the
\* given percentages
ConvertedHsl(h, s, l) ==
    /\ color_call.status = "ok"
    /\ color_call.input_color = HslText(h, s, l)
\* C23: for hsl(h, s%, l%) the returned R, G, B are the truncated values of
\* the formulas, with every hue offset wrapped into [0, 1), also for h of
\* 360 and more
C23_HslToRgbExact ==
    \A h \in HueSample, s \in PercentSample, l \in PercentSample :
        ConvertedHsl(h, s, l) => color_call.rgb = ExactRgb(h, s, l)
\* what the code has: for h up to 600 each channel is within one of the
\* truncated value
C23_HslToRgbWithin1 ==
    \A h \in HueSample, s \in PercentSample, l \in PercentSample :
        (ConvertedHsl(h, s, l) /\ h <= 600) =>
            /\ Abs(color_call.rgb.r - ExactRgb(h, s, l).r) <= 1
            /\ Abs(color_call.rgb.g - ExactRgb(h, s, l).g) <= 1
            /\ Abs(color_call.rgb.b - ExactRgb(h, s, l).b) <= 1

\* what follows the optional '#' of a hex input
HexBodyOf(color) == IF StartsWith(color, <<CH.hash>>) THEN Tail(color) ELSE color
\* the six lower-case digits a hex body stands for: xyz is xxyyzz
SixDigits(body) ==
    LowerText(IF Len(body) = 3 THEN [i \in 1..6 |-> body[(i + 1) \div 2]] ELSE body)
\* color is one of the spellings '#xyz', 'xyz', '#xxyyzz', 'xxyyzz' of hex
\* digits in either letter case
IsHexSpelling(color) ==
    /\ Len(HexBodyOf(color)) \in {3, 6}
    /\ AllHex(HexBodyOf(color))
\* C24: the spellings '#xyz', 'xyz', '#xxyyzz' and 'xxyyzz', in either
\* letter case, are detected as hex and give the same hex, rgb and hsl: the
\* hex is '#' and the six lower-case digits, rgb the values of its three
\* pairs, hsl what the six-digit form gives
C24_HexSpellings ==
    (color_call.status # "none" /\ IsHexSpelling(color_call.input_color)) =>
        /\ color_call.status = "ok"
        /\ color_call.input_format = "hex"
        /\ color_call.hex = <<CH.hash>> \o SixDigits(HexBodyOf(color_call.input_color))
        /\ color_call.rgb =
              [r |-> HexToInt(SubSeq(SixDigits(HexBodyOf(color_call.input_color)), 1, 2)),
               g |-> HexToInt(SubSeq(SixDigits(HexBodyOf(color_call.input_color)), 3, 4)),
               b |-> HexToInt(SubSeq(SixDigits(HexBodyOf(color_call.input_color)), 5, 6))]
        /\ color_call.hsl =
              color_run(<<CH.hash>> \o SixDigits(HexBodyOf(color_call.input_color))).hsl
\* the bare shorthand F0a was converted to #ff00aa, RGB (255, 0, 170)
C24_Witness ==
    /\ color_call.status = "ok"
    /\ color_call.input_color = <<70, 48, 97>>
    /\ color_call.hex = <<35, 102, 102, 48, 48, 97, 97>>
    /\ color_call.rgb = [r |-> 255, g |-> 0, b |-> 170]

(***************************************************************************)
(* Properties of the registry                                              *)
(***************************************************************************)
\* C25: in every step of every sequence of registry calls, each registered
\* name keeps its place and its class, and a register_tool whose name is
\* already registered, or whose class is not a BaseTool subclass, ends in
\* ValueError and leaves the registry as it was
C25_RegistryStable ==
    [][ /\ Len(registry') >= Len(registry)
        /\ \A i \in 1..Len(registry) : registry'[i] = registry[i]
        /\ (/\ registry_call'.op = "register_tool"
            /\ \/ IsRegistered(registry, registry_call'.name)
               \/ ~ToolClasses[registry_call'.cls].is_tool)
           => /\ registry_call'.status = "error"
              /\ registry_call'.type = "ValueError"
              /\ registry' = registry ]_vars
\* register_tool(ColorTool, 'escape') was refused and 'escape' is still
\* bound to EscapeTool
C25_Witness ==
    /\ registry_call.status = "error"
    /\ registry_call.op = "register_tool"
    /\ registry_call.name = "escape"
    /\ registry_call.cls = "ColorTool"
    /\ IsRegistered(registry, "escape")
    /\ ClassOf(registry, "escape") = "EscapeTool"

\* the last call of the registry was a call of op
IsRegistryCall(op) == registry_call.status # "none" /\ registry_call.op = op
\* the names of the successful register_tool calls, in the order of the calls
RegisteredNames == [i \in 1..Len(registered) |-> registered[i].name]
\* C26: list_tools returns the names of the successful register_tool calls,
\* each once and in the order of the calls; get_tool of a registered name
\* returns an instance, made by this very call, of the class registered
\* under the name; get_tool of a name that was not registered ends in
\* ValueError
C26_ListAndGet ==
    /\ IsRegistryCall("list_tools") =>
          /\ registry_call.names = RegisteredNames
          /\ \A i, j \in 1..Len(registry_call.names) :
                registry_call.names[i] = registry_call.names[j] => i = j
    /\ (IsRegistryCall("get_tool") /\ IsRegistered(registered, registry_call.name)) =>
          /\ registry_call.status = "ok"
          /\ heap[registry_call.ret].cls = ClassOf(registered, registry_call.name)
          /\ heap[registry_call.ret].made_by = registry_call.call
    /\ (IsRegistryCall("get_tool") /\ ~IsRegistered(registered, registry_call.name)) =>
          /\ registry_call.status = "error"
          /\ registry_call.type = "ValueError"
\* get_tool has returned a second instance of a class
C26_Witness ==
    /\ IsRegistryCall("get_tool")
    /\ registry_call.status = "ok"
    /\ \E j \in 1..Len(heap) :
          /\ j # registry_call.ret
          /\ heap[j].cls = heap[registry_call.ret].cls

(***************************************************************************)
(* Properties of the epoch tool                                            *)
(***************************************************************************)
\* the timestamp of a request as a text, and whether the request has one
HasTimestamp(request) ==
    /\ request.kind \in {"str", "int"}
    /\ request.kind = "str" => Strip(request.text) # <<>>
TimestampText(request) ==
    IF request.kind = "int" THEN IntStr(request.value) ELSE Strip(request.text)
\* the number of decimal digits of a text
DigitCount(s) == Len(SelectSeq(s, IsDigit))
IsEpochCall == epoch_call # NoCall
EpochIs(out, epoch) == out.status = "ok" /\ out.epoch = epoch
EpochFails(out, type) == out.status = "error" /\ out.type = type

\* C27: a timestamp that is an integer of 13 or more digits is read as
\* milliseconds and gives epoch = value div 1000, one of fewer than 13 digits is
\* read as seconds and gives epoch = value, no timestamp or an empty one gives
\* the time of the call, and a timestamp that is not an integer fails with
\* ValueError
C27_EpochByDigits ==
    IsEpochCall =>
        IF ~HasTimestamp(epoch_call.request)
        THEN EpochIs(epoch_call.out, PyInt(FALSE, DecDigits(epoch_call.at)))
        ELSE IF ~py_int(TimestampText(epoch_call.request)).ok
        THEN EpochFails(epoch_call.out, "ValueError")
        ELSE IF DigitCount(TimestampText(epoch_call.request)) >= 13
        THEN EpochIs(epoch_call.out,
                     floordiv_1000(py_int(TimestampText(epoch_call.request)).value))
        ELSE EpochIs(epoch_call.out, py_int(TimestampText(epoch_call.request)).value)

\* C27, as the code has it: the timestamp is read as milliseconds when its
\* text, sign and underscores included, is 13 or more characters long, and the
\* call returns the seconds only when datetime can hold them
C27_EpochByLength ==
    IsEpochCall =>
        IF ~HasTimestamp(epoch_call.request)
        THEN EpochIs(epoch_call.out, PyInt(FALSE, DecDigits(epoch_call.at)))
        ELSE IF ~py_int(TimestampText(epoch_call.request)).ok
        THEN EpochFails(epoch_call.out, "ValueError")
        ELSE IF Len(TimestampText(epoch_call.request)) >= 13
        THEN \/ EpochIs(epoch_call.out,
                        floordiv_1000(py_int(TimestampText(epoch_call.request)).value))
             \/ /\ epoch_call.out.status = "error"
                /\ ~fromtimestamp_ok(
                      floordiv_1000(py_int(TimestampText(epoch_call.request)).value))
        ELSE \/ EpochIs(epoch_call.out, py_int(TimestampText(epoch_call.request)).value)
             \/ /\ epoch_call.out.status = "error"
                /\ ~fromtimestamp_ok(py_int(TimestampText(epoch_call.request)).value)

\* a signed timestamp of 12 digits is read as milliseconds
C27_SignedTwelveDigits ==
    /\ IsEpochCall
    /\ epoch_call.request.kind = "str"
    /\ epoch_call.request.text = <<43, 49, 55, 48, 48, 48, 48, 48, 48, 48, 48, 48, 48>>
    /\ EpochIs(epoch_call.out, PyInt(FALSE, <<49, 55, 48, 48, 48, 48, 48, 48, 48>>))

(***************************************************************************)
(* Properties of the JWT decoder                                           *)
(***************************************************************************)
Text_exp == <<101, 120, 112>>
\* the parts of the token of the call, and its decoded header and payload
JwtParts == split(Strip(jwt_call.token), JC.dot, <<>>)
IsObject(decoded) == decoded.ok /\ decoded.value.t = "object"
\* the call decoded a token of three parts whose header and payload are
\* JSON objects
IsWellFormedJwt ==
    /\ jwt_call # NoCall
    /\ Len(JwtParts) = 3
    /\ IsObject(_decode_base64_url(JwtParts[1]))
    /\ IsObject(_decode_base64_url(JwtParts[2]))
JwtPayload == _decode_base64_url(JwtParts[2]).value.members
HasIntegerExp == HasKey(JwtPayload, Text_exp) /\ dict_get(JwtPayload, Text_exp).t = "int"
\* the three fields of the output that tell about the expiry
ExpiryIs(out, exp, current_time) ==
    /\ out.status = "ok"
    /\ out.expires_at = Some(exp)
    /\ ~out.expires_at_readable.is_none
    /\ out.is_expired = Some(PyLess(exp, PyInt(FALSE, DecDigits(current_time))))
ExpiryIsNull(out) ==
    /\ out.status = "ok"
    /\ out.expires_at = None
    /\ out.expires_at_readable = None
    /\ out.is_expired = None

\* C28: for a well-formed token whose payload has an integer exp, expires_at,
\* expires_at_readable and is_expired are not null and is_expired tells
\* whether exp is earlier than the time of the call; for a payload without
\* exp the three fields are null
C28_ExpiryOfAnyExp ==
    IsWellFormedJwt =>
        /\ HasIntegerExp =>
              ExpiryIs(jwt_call.out, dict_get(JwtPayload, Text_exp).v, jwt_call.at)
        /\ ~HasKey(JwtPayload, Text_exp) => ExpiryIsNull(jwt_call.out)

\* C28, as the code has it: an exp of 0 leaves expires_at_readable and
\* is_expired null, every other integer is reported as the claim says
C28_ExpiryOfNonZeroExp ==
    IsWellFormedJwt =>
        /\ HasIntegerExp /\ Truthy(dict_get(JwtPayload, Text_exp)) =>
              ExpiryIs(jwt_call.out, dict_get(JwtPayload, Text_exp).v, jwt_call.at)
        /\ HasIntegerExp /\ ~Truthy(dict_get(JwtPayload, Text_exp)) =>
              /\ jwt_call.out.status = "ok"
              /\ jwt_call.out.expires_at = Some(PyInt(FALSE, <<CH.zero>>))
              /\ jwt_call.out.expires_at_readable = None
              /\ jwt_call.out.is_expired = None
        /\ ~HasKey(JwtPayload, Text_exp) => ExpiryIsNull(jwt_call.out)

\* a token with exp 0 has been decoded
C28_ZeroExpDecoded ==
    /\ IsWellFormedJwt
    /\ HasIntegerExp
    /\ dict_get(JwtPayload, Text_exp).v = PyInt(FALSE, <<CH.zero>>)
    /\ jwt_call.out.status = "ok"
    /\ jwt_call.out.is_expired = None

\* a token has been decoded at the very second of its exp, and is not expired
C28_DecodedAtExp ==
    /\ IsWellFormedJwt
    /\ HasIntegerExp
    /\ dict_get(JwtPayload, Text_exp).v = PyInt(FALSE, DecDigits(jwt_call.at))
    /\ jwt_call.out.is_expired = Some(FALSE)

(***************************************************************************)
(* Properties of the JSON tool                                             *)
(***************************************************************************)
IsJsonSuccess == json_call # NoCall /\ json_call.out.status = "ok"
\* original, size_before and size_after tell about the text given
SizesOf(out, text) ==
    /\ out.original = text
    /\ out.size_before = Len(text)
    /\ out.size_after = Len(out.formatted)

\* C29: after every successful call, also one whose text only parses after
\* the automatic unescape, original is the text of the request without the
\* white space around it, size_before is its length and size_after is the
\* length of formatted
C29_OriginalIsInput ==
    IsJsonSuccess => SizesOf(json_call.out, Strip(json_call.text))

\* C29, as the code has it: when the text of the request does not parse,
\* original and size_before are those of the unescaped text
C29_OriginalIsParsedText ==
    IsJsonSuccess =>
        IF loads(Strip(json_call.text)).ok
        THEN SizesOf(json_call.out, Strip(json_call.text))
        ELSE SizesOf(json_call.out, auto_unescaped(Strip(json_call.text)))

\* a text that only parses after the unescape has been formatted
C29_ParsedAfterUnescape ==
    /\ IsJsonSuccess
    /\ ~loads(Strip(json_call.text)).ok
    /\ json_call.out.original # Strip(json_call.text)
    /\ json_call.out.size_before < Len(Strip(json_call.text))

(***************************************************************************)
(* Properties of the command line                                          *)
(***************************************************************************)
IsCliRun == cli # NoCall
\* the tool a command line names
CliTool(argv) == IF argv.command = "run" THEN argv.tool ELSE argv.command
\* the command line names a registered tool and its input, if it has one,
\* is valid JSON
ReachesTool(argv) ==
    /\ \E i \in 1..Len(PluginTools) : PluginTools[i] = CliTool(argv)
    /\ argv.command = "run" => loads(argv.input).ok
\* the run ended with one message on stderr, status 1 and nothing on stdout
EndedWithError(c) ==
    /\ c.exit_status = 1
    /\ c.stdout = <<>>
    /\ Len(c.stderr) = 1
    /\ c.stderr[1].prefix = "Error: "
IsErrorEnvelope(doc, tool) == DOMAIN doc = {"error", "type", "tool"} /\ doc.tool = tool
\* the run printed one document, the output of the tool or its error
\* envelope, and returned 0
PrintedOneDocument(c) ==
    /\ c.exit_status = 0
    /\ Len(c.stdout) = 1
    /\ c.stderr = <<>>
    /\ "error" \in DOMAIN c.stdout[1] => IsErrorEnvelope(c.stdout[1], CliTool(c.argv))

\* C30: a command line that names an unregistered tool or whose input is not
\* valid JSON ends with an 'Error: ' message on stderr, status 1 and no
\* document on stdout; one that reaches a registered tool prints exactly one
\* document, the error envelope when the tool failed, and returns 0
C30_CliOutcome ==
    IsCliRun =>
        IF ReachesTool(cli.argv) THEN PrintedOneDocument(cli) ELSE EndedWithError(cli)

\* C30, as the code has it: a result that print cannot encode ends the run
\* like an error
C30_CliOutcomeWhenPrintable ==
    IsCliRun =>
        IF ReachesTool(cli.argv)
        THEN \/ PrintedOneDocument(cli)
             \/ EndedWithError(cli) /\ cli.stderr[1].message = "surrogates not allowed"
        ELSE EndedWithError(cli)

\* the jwt tool was reached, decoded its token, and nothing was printed
C30_DecodedNotPrinted ==
    /\ IsCliRun
    /\ ReachesTool(cli.argv)
    /\ CliTool(cli.argv) = "jwt"
    /\ cli.exit_status = 1
    /\ cli.stdout = <<>>

\* a tool failed and its error envelope was printed with status 0
C30_EnvelopePrinted ==
    /\ IsCliRun
    /\ ReachesTool(cli.argv)
    /\ cli.exit_status = 0
    /\ Len(cli.stdout) = 1
    /\ IsErrorEnvelope(cli.stdout[1], CliTool(cli.argv))

====
